---- MODULE Spec2Model ----
(***************************************************************************)
(* The video packet buffer of modules/video_coding/packet_buffer.cc: a     *)
(* ring of packet slots indexed by sequence number modulo the capacity,    *)
(* the set of missing sequence numbers, the timestamp history, and the     *)
(* frame assembly of FindFrames.  Every public operation is an action that *)
(* takes the lock crit_, runs its critical section and stops at the        *)
(* statement that leaves the section; the lock is released and the frames  *)
(* are handed to the callback by the steps that follow.                    *)
(***************************************************************************)
EXTENDS Integers, Sequences, FiniteSets, TLC

(* ------------------------------ bounds -------------------------------- *)

\* Capacities are 2^0 .. 2^MaxBits.
MaxBits == 2

\* Number of consecutive sequence numbers the sender uses, from 65534 on.
NumSeqs == 5

\* Longest frame, in packets, of a stream.
MaxFrameLen == 3

\* Number of calls made on the buffer in one behaviour.
MaxOps == 3

(* ------------------------- program constants -------------------------- *)

\* uint16_t sequence numbers.
SeqModulus == 65536

kMaxPaddingAge == 1000

kMaxTimestampsHistory == 1000

kMaxNalusPerPacket == 10

kNoTemporalIdx == 255

(* --------------------------- arithmetic ------------------------------- *)

U16(x) == x % SeqModulus

Max(a, b) == IF a >= b THEN a ELSE b

Min(a, b) == IF a <= b THEN a ELSE b

RECURSIVE Pow2(_)
Pow2(n) == IF n = 0 THEN 1 ELSE 2 * Pow2(n - 1)

\* rtc_base/numerics/mod_ops.h: the distance from a forward to b.
ForwardDiff(a, b) == U16(b - a)

\* a is ahead of b, or is b, in the circular order of uint16_t.
AheadOrAt(a, b) ==
    IF U16(a - b) = SeqModulus \div 2 THEN b < a
    ELSE ForwardDiff(b, a) < SeqModulus \div 2

AheadOf(a, b) == a # b /\ AheadOrAt(a, b)

(* ------------------------- optional values ---------------------------- *)

\* A null pointer or an empty absl::optional is the empty tuple, a value v
\* is <<v>>.
None == << >>

Some(v) == << v >>

IsSome(o) == Len(o) = 1

Val(o) == o[1]

(* ----------------------------- packets -------------------------------- *)

NoH264Header == [present |-> FALSE, nalus |-> << >>]

H264Header(nalus) == [present |-> TRUE, nalus |-> nalus]

\* A default-constructed VCMPacket, the content of a slot never written.
EmptyPacket ==
    [seqNum |-> 0, timestamp |-> 0, is_first |-> FALSE, is_last |-> FALSE,
     codec |-> "generic", sizeBytes |-> 0, dataPtr |-> None,
     timesNacked |-> -1, receive_time_ms |-> 0, frame_type |-> "empty",
     temporal_id |-> kNoTemporalIdx, h264 |-> NoH264Header]

\* A default-constructed ContinuityInfo.
EmptyInfo ==
    [seq_num |-> 0, frame_begin |-> FALSE, frame_end |-> FALSE,
     used |-> FALSE, continuous |-> FALSE, frame_created |-> FALSE]

\* The payload bytes of the packet with sequence number s: one or two bytes
\* that name the packet.
Payload(s) == [i \in 1 .. (1 + (s % 2)) |-> s]

\* The sequence numbers of a stream whose first packet has number first.
StreamSeqNums(first) == { U16(first + i) : i \in 0 .. (NumSeqs - 1) }

SeqNums == StreamSeqNums(65534)

Position(first, s) == ForwardDiff(first, s)

\* The packet of sequence number s in a stream that starts at first and
\* has frames of n packets each (n = 0: a stream without frame
\* boundaries), arriving after r retransmission requests.
StreamPacket(first, s, n, codec, nalus, r) ==
    [seqNum |-> s,
     timestamp |->
         IF n = 0 THEN 9000 ELSE 9000 + (3000 * (Position(first, s) \div n)),
     is_first |-> n > 0 /\ Position(first, s) % n = 0,
     is_last |-> n > 0 /\ Position(first, s) % n = n - 1,
     codec |-> codec, sizeBytes |-> Len(Payload(s)),
     dataPtr |-> Some(Payload(s)),
     timesNacked |-> r,
     receive_time_ms |-> 100 + (10 * r) + (Position(first, s) % 2),
     frame_type |-> "delta", temporal_id |-> kNoTemporalIdx,
     h264 |-> IF codec = "h264" THEN H264Header(nalus) ELSE NoH264Header]

(* --------------------- the buffer as a value -------------------------- *)

\* The operations below are functions of the buffer b, a record of the
\* member variables of PacketBuffer that crit_ guards.

Index(b, seq_num) == seq_num % b.size_

PrevIndex(b, index) == IF index > 0 THEN index - 1 ELSE b.size_ - 1

\* std::set<uint16_t, DescendingSeqNumComp<uint16_t>>: the entries in
\* ascending circular order.  lower_bound(x) is the first entry that is not
\* behind x, upper_bound(x) the first entry ahead of x.
BeforeLowerBound(missing, x) == { e \in missing : AheadOf(x, e) }

BeforeUpperBound(missing, x) == { e \in missing : ~AheadOf(e, x) }

\* The last entry, in the order of the set, of a non-empty part of it.
LastOf(part) == CHOOSE m \in part : \A e \in part : e = m \/ AheadOf(m, e)

\* A history that drops the timestamp it has just recorded when it is full.
OnTimestampReceivedEvictsNewest(b, rtp_timestamp) ==
    IF rtp_timestamp \in b.rtp_timestamps_history_set_ THEN b
    ELSE IF Cardinality(b.rtp_timestamps_history_set_) >= kMaxTimestampsHistory
    THEN [b EXCEPT !.unique_frames_seen_ = @ + 1]
    ELSE [b EXCEPT
            !.unique_frames_seen_ = @ + 1,
            !.rtp_timestamps_history_set_ = @ \cup {rtp_timestamp},
            !.rtp_timestamps_history_queue_ = Append(@, rtp_timestamp)]

OnTimestampReceived(b, rtp_timestamp) ==
    IF rtp_timestamp \in b.rtp_timestamps_history_set_ THEN b
    ELSE
      LET set1 == b.rtp_timestamps_history_set_ \cup {rtp_timestamp}
          queue1 == Append(b.rtp_timestamps_history_queue_, rtp_timestamp)
          over == Cardinality(set1) > kMaxTimestampsHistory
      IN [b EXCEPT
            !.unique_frames_seen_ = @ + 1,
            !.rtp_timestamps_history_set_ =
                IF over THEN set1 \ {Head(queue1)} ELSE set1,
            !.rtp_timestamps_history_queue_ =
                IF over THEN Tail(queue1) ELSE queue1]

\* An UpdateMissingPackets without the guard against a large jump.
UpdateMissingPacketsUnguarded(b, seq_num) ==
    LET newest0 == IF IsSome(b.newest_inserted_seq_num_)
                   THEN Val(b.newest_inserted_seq_num_) ELSE seq_num
    IN IF AheadOf(seq_num, newest0)
       THEN
         LET old_seq_num == U16(seq_num - kMaxPaddingAge)
             kept == b.missing_packets_
                       \ BeforeLowerBound(b.missing_packets_, old_seq_num)
             added == { U16(newest0 + k) :
                          k \in 1 .. (ForwardDiff(newest0, seq_num) - 1) }
         IN [b EXCEPT !.missing_packets_ = kept \cup added,
                      !.newest_inserted_seq_num_ = Some(seq_num)]
       ELSE [b EXCEPT !.missing_packets_ = @ \ {seq_num},
                      !.newest_inserted_seq_num_ = Some(newest0)]

\* An UpdateMissingPackets that keeps the entry of a packet that arrives
\* late.
UpdateMissingPacketsKeepsEntry(b, seq_num) ==
    LET newest0 == IF IsSome(b.newest_inserted_seq_num_)
                   THEN Val(b.newest_inserted_seq_num_) ELSE seq_num
    IN IF AheadOf(seq_num, newest0)
       THEN
         LET old_seq_num == U16(seq_num - kMaxPaddingAge)
             kept == b.missing_packets_
                       \ BeforeLowerBound(b.missing_packets_, old_seq_num)
             newest1 == IF AheadOf(old_seq_num, newest0)
                        THEN old_seq_num ELSE newest0
             added == { U16(newest1 + k) :
                          k \in 1 .. (ForwardDiff(newest1, seq_num) - 1) }
         IN [b EXCEPT !.missing_packets_ = kept \cup added,
                      !.newest_inserted_seq_num_ = Some(seq_num)]
       ELSE [b EXCEPT !.newest_inserted_seq_num_ = Some(newest0)]

\* An UpdateMissingPackets whose loop also records the sequence number
\* that has arrived.
UpdateMissingPacketsRecordsArrival(b, seq_num) ==
    LET newest0 == IF IsSome(b.newest_inserted_seq_num_)
                   THEN Val(b.newest_inserted_seq_num_) ELSE seq_num
    IN IF AheadOf(seq_num, newest0)
       THEN
         LET old_seq_num == U16(seq_num - kMaxPaddingAge)
             kept == b.missing_packets_
                       \ BeforeLowerBound(b.missing_packets_, old_seq_num)
             newest1 == IF AheadOf(old_seq_num, newest0)
                        THEN old_seq_num ELSE newest0
             added == { U16(newest1 + k) :
                          k \in 1 .. ForwardDiff(newest1, seq_num) }
         IN [b EXCEPT !.missing_packets_ = kept \cup added,
                      !.newest_inserted_seq_num_ = Some(seq_num)]
       ELSE [b EXCEPT !.missing_packets_ = @ \ {seq_num},
                      !.newest_inserted_seq_num_ = Some(newest0)]

UpdateMissingPackets(b, seq_num) ==
    LET newest0 == IF IsSome(b.newest_inserted_seq_num_)
                   THEN Val(b.newest_inserted_seq_num_) ELSE seq_num
    IN IF AheadOf(seq_num, newest0)
       THEN
         LET old_seq_num == U16(seq_num - kMaxPaddingAge)
             kept == b.missing_packets_
                       \ BeforeLowerBound(b.missing_packets_, old_seq_num)
             newest1 == IF AheadOf(old_seq_num, newest0)
                        THEN old_seq_num ELSE newest0
             \* ++newest; while (AheadOf(seq_num, newest)) insert, ++newest
             added == { U16(newest1 + k) :
                          k \in 1 .. (ForwardDiff(newest1, seq_num) - 1) }
         IN [b EXCEPT !.missing_packets_ = kept \cup added,
                      !.newest_inserted_seq_num_ = Some(seq_num)]
       ELSE [b EXCEPT !.missing_packets_ = @ \ {seq_num},
                      !.newest_inserted_seq_num_ = Some(newest0)]

\* A growth that leaves every packet at the index it had.
RehashInPlace(b, new_size, j) ==
    { i \in 0 .. (b.size_ - 1) : b.sequence_buffer_[i].used /\ i = j }

\* The slots of the grown buffer: every used slot is copied to the index
\* of its sequence number in the new size, in ascending order of old index.
Rehash(b, new_size, j) ==
    { i \in 0 .. (b.size_ - 1) :
        b.sequence_buffer_[i].used
        /\ b.sequence_buffer_[i].seq_num % new_size = j }

\* A growth that does not stop at max_size_.
ExpandPastMax(b) ==
    LET new_size == 2 * b.size_
        from(j) == LET cand == Rehash(b, new_size, j)
                   IN CHOOSE i \in cand : \A k \in cand : k <= i
    IN [b |-> [b EXCEPT
                 !.size_ = new_size,
                 !.sequence_buffer_ =
                     [j \in 0 .. (new_size - 1) |->
                        IF Rehash(b, new_size, j) = {} THEN EmptyInfo
                        ELSE b.sequence_buffer_[from(j)]],
                 !.data_buffer_ =
                     [j \in 0 .. (new_size - 1) |->
                        IF Rehash(b, new_size, j) = {} THEN EmptyPacket
                        ELSE b.data_buffer_[from(j)]]],
        expanded |-> TRUE]

\* A growth that keeps the slots in place and does not move the packets
\* whose index changes.
ExpandBufferSizeInPlace(b) ==
    IF b.size_ = b.max_size_ THEN [b |-> b, expanded |-> FALSE]
    ELSE [b |-> [b EXCEPT
                   !.size_ = Min(b.max_size_, 2 * b.size_),
                   !.sequence_buffer_ =
                       [j \in 0 .. (Min(b.max_size_, 2 * b.size_) - 1) |->
                          IF j < b.size_
                             /\ b.sequence_buffer_[j].used
                             /\ b.sequence_buffer_[j].seq_num
                                  % Min(b.max_size_, 2 * b.size_) = j
                          THEN b.sequence_buffer_[j] ELSE EmptyInfo],
                   !.data_buffer_ =
                       [j \in 0 .. (Min(b.max_size_, 2 * b.size_) - 1) |->
                          IF j < b.size_
                             /\ b.sequence_buffer_[j].used
                             /\ b.sequence_buffer_[j].seq_num
                                  % Min(b.max_size_, 2 * b.size_) = j
                          THEN b.data_buffer_[j] ELSE EmptyPacket]],
          expanded |-> TRUE]

ExpandBufferSize(b) ==
    IF b.size_ = b.max_size_ THEN [b |-> b, expanded |-> FALSE]
    ELSE
      LET new_size == Min(b.max_size_, 2 * b.size_)
          from(j) == LET cand == Rehash(b, new_size, j)
                     IN CHOOSE i \in cand : \A k \in cand : k <= i
      IN [b |-> [b EXCEPT
                   !.size_ = new_size,
                   !.sequence_buffer_ =
                       [j \in 0 .. (new_size - 1) |->
                          IF Rehash(b, new_size, j) = {} THEN EmptyInfo
                          ELSE b.sequence_buffer_[from(j)]],
                   !.data_buffer_ =
                       [j \in 0 .. (new_size - 1) |->
                          IF Rehash(b, new_size, j) = {} THEN EmptyPacket
                          ELSE b.data_buffer_[from(j)]]],
          expanded |-> TRUE]

\* while (ExpandBufferSize() && sequence_buffer_[seq_num % size_].used) {}
RECURSIVE ExpandWhileUsed(_, _)
ExpandWhileUsed(b, seq_num) ==
    LET e == ExpandBufferSize(b)
    IN IF e.expanded /\ e.b.sequence_buffer_[Index(e.b, seq_num)].used
       THEN ExpandWhileUsed(e.b, seq_num)
       ELSE e.b

\* A Clear that forgets to empty the missing set.
ClearKeepsMissing(b) ==
    [b EXCEPT
       !.data_buffer_ = [i \in DOMAIN @ |-> [@[i] EXCEPT !.dataPtr = None]],
       !.sequence_buffer_ = [i \in DOMAIN @ |-> [@[i] EXCEPT !.used = FALSE]],
       !.first_packet_received_ = FALSE,
       !.is_cleared_to_first_seq_num_ = FALSE,
       !.newest_inserted_seq_num_ = None]

\* A Clear that also empties the timestamp history.
ClearWithHistory(b) ==
    [b EXCEPT
       !.data_buffer_ = [i \in DOMAIN @ |-> [@[i] EXCEPT !.dataPtr = None]],
       !.sequence_buffer_ = [i \in DOMAIN @ |-> [@[i] EXCEPT !.used = FALSE]],
       !.first_packet_received_ = FALSE,
       !.is_cleared_to_first_seq_num_ = FALSE,
       !.newest_inserted_seq_num_ = None,
       !.missing_packets_ = {},
       !.rtp_timestamps_history_set_ = {},
       !.rtp_timestamps_history_queue_ = << >>]

Clear(b) ==
    [b EXCEPT
       !.data_buffer_ = [i \in DOMAIN @ |-> [@[i] EXCEPT !.dataPtr = None]],
       !.sequence_buffer_ = [i \in DOMAIN @ |-> [@[i] EXCEPT !.used = FALSE]],
       !.first_packet_received_ = FALSE,
       !.is_cleared_to_first_seq_num_ = FALSE,
       !.newest_inserted_seq_num_ = None,
       !.missing_packets_ = {}]

\* A PotentialNewFrame that computes seq_num - 1 without the cast to
\* uint16_t.
PotentialNewFrameNoWrap(b, seq_num) ==
    LET index == Index(b, seq_num)
        prev_index == PrevIndex(b, index)
        cur == b.sequence_buffer_[index]
        prev == b.sequence_buffer_[prev_index]
    IN IF ~cur.used THEN FALSE
       ELSE IF cur.seq_num # seq_num THEN FALSE
       ELSE IF cur.frame_created THEN FALSE
       ELSE IF cur.frame_begin THEN TRUE
       ELSE IF ~prev.used THEN FALSE
       ELSE IF prev.frame_created THEN FALSE
       ELSE IF prev.seq_num # cur.seq_num - 1 THEN FALSE
       ELSE IF b.data_buffer_[prev_index].timestamp
                 # b.data_buffer_[index].timestamp THEN FALSE
       ELSE prev.continuous

\* A PotentialNewFrame that does not compare the slot's sequence number.
PotentialNewFrameAnySeqNum(b, seq_num) ==
    LET index == Index(b, seq_num)
        prev_index == PrevIndex(b, index)
        cur == b.sequence_buffer_[index]
        prev == b.sequence_buffer_[prev_index]
    IN IF ~cur.used THEN FALSE
       ELSE IF cur.frame_created THEN FALSE
       ELSE IF cur.frame_begin THEN TRUE
       ELSE IF ~prev.used THEN FALSE
       ELSE IF prev.frame_created THEN FALSE
       ELSE IF prev.seq_num # U16(cur.seq_num - 1) THEN FALSE
       ELSE IF b.data_buffer_[prev_index].timestamp
                 # b.data_buffer_[index].timestamp THEN FALSE
       ELSE prev.continuous

PotentialNewFrame(b, seq_num) ==
    LET index == Index(b, seq_num)
        prev_index == PrevIndex(b, index)
        cur == b.sequence_buffer_[index]
        prev == b.sequence_buffer_[prev_index]
    IN IF ~cur.used THEN FALSE
       ELSE IF cur.seq_num # seq_num THEN FALSE
       ELSE IF cur.frame_created THEN FALSE
       ELSE IF cur.frame_begin THEN TRUE
       ELSE IF ~prev.used THEN FALSE
       ELSE IF prev.frame_created THEN FALSE
       ELSE IF prev.seq_num # U16(cur.seq_num - 1) THEN FALSE
       ELSE IF b.data_buffer_[prev_index].timestamp
                 # b.data_buffer_[index].timestamp THEN FALSE
       ELSE prev.continuous

\* The packet at seq_num, or a null pointer.
GetPacket(b, seq_num) ==
    LET index == Index(b, seq_num)
    IN IF ~b.sequence_buffer_[index].used
          \/ seq_num # b.sequence_buffer_[index].seq_num
       THEN None
       ELSE Some(b.data_buffer_[index])

\* A byte of a freshly allocated frame buffer that nothing was copied to.
Uninitialized == -1

\* A ClearInterval that marks the slots unused and keeps their payloads.
RECURSIVE ClearIntervalLoopKeepsPayload(_, _, _, _)
ClearIntervalLoopKeepsPayload(b, seq_num, i, iterations) ==
    IF i >= iterations THEN [b |-> b, fault |-> "none"]
    ELSE
      LET index == Index(b, seq_num)
      IN IF b.sequence_buffer_[index].seq_num # seq_num
            \/ b.sequence_buffer_[index].seq_num # b.data_buffer_[index].seqNum
         THEN [b |-> b, fault |-> "dcheck"]
         ELSE ClearIntervalLoopKeepsPayload(
                [b EXCEPT !.sequence_buffer_[index].used = FALSE],
                U16(seq_num + 1), i + 1, iterations)

\* Frees the packets start_seq_num .. stop_seq_num.  A failed RTC_DCHECK
\* ends the process.
RECURSIVE ClearIntervalLoop(_, _, _, _)
ClearIntervalLoop(b, seq_num, i, iterations) ==
    IF i >= iterations THEN [b |-> b, fault |-> "none"]
    ELSE
      LET index == Index(b, seq_num)
      IN IF b.sequence_buffer_[index].seq_num # seq_num
            \/ b.sequence_buffer_[index].seq_num # b.data_buffer_[index].seqNum
         THEN [b |-> b, fault |-> "dcheck"]
         ELSE ClearIntervalLoop(
                [b EXCEPT !.data_buffer_[index].dataPtr = None,
                          !.sequence_buffer_[index].used = FALSE],
                U16(seq_num + 1), i + 1, iterations)

ClearInterval(b, start_seq_num, stop_seq_num) ==
    LET iterations == ForwardDiff(start_seq_num, U16(stop_seq_num + 1))
    IN IF iterations > b.size_ THEN [b |-> b, fault |-> "dcheck"]
       ELSE ClearIntervalLoop(b, start_seq_num, 0, iterations)

\* do { copy the slot at index } while (index != end);
RECURSIVE CopyLoop(_, _, _, _, _)
CopyLoop(b, frame_size, index, end, copied) ==
    LET slot == b.data_buffer_[index]
        length == slot.sizeBytes
        next == (index + 1) % b.size_
    IN IF ~b.sequence_buffer_[index].used
       THEN [data |-> copied, fault |-> "dcheck"]
       ELSE IF Len(copied) + length > frame_size
       THEN [data |-> copied, fault |-> "check"]
       ELSE IF ~IsSome(slot.dataPtr) /\ length > 0
       THEN [data |-> copied, fault |-> "null_read"]
       ELSE
         LET bytes == IF IsSome(slot.dataPtr)
                      THEN SubSeq(Val(slot.dataPtr), 1, length) ELSE << >>
         IN IF next # end
            THEN CopyLoop(b, frame_size, next, end, copied \o bytes)
            ELSE [data |-> copied \o bytes, fault |-> "none"]

GetEncodedImageBuffer(b, frame_size, first_seq_num, last_seq_num) ==
    LET r == CopyLoop(b, frame_size, Index(b, first_seq_num),
                      U16(last_seq_num + 1) % b.size_, << >>)
    IN [data |-> r.data
                   \o [k \in 1 .. (frame_size - Len(r.data)) |-> Uninitialized],
        fault |-> r.fault]

(* --------------------------- FindFrames ------------------------------- *)

\* The NALU types of a packet's H264 header seen so far in the frame.
ScanNalus(w, header) ==
    LET types == { header.nalus[j] : j \in 1 .. Len(header.nalus) }
    IN [w EXCEPT !.has_h264_sps = @ \/ "sps" \in types,
                 !.has_h264_pps = @ \/ "pps" \in types,
                 !.has_h264_idr = @ \/ "idr" \in types]

\* A classification that takes any IDR frame for a keyframe, whatever the
\* field trial says.
IsKeyframeIdrOnly(b, w) == w.has_h264_idr

IsKeyframe(b, w) ==
    \/ b.sps_pps_idr_is_h264_keyframe_
         /\ w.has_h264_idr /\ w.has_h264_sps /\ w.has_h264_pps
    \/ ~b.sps_pps_idr_is_h264_keyframe_ /\ w.has_h264_idr

\* A backward walk that takes every used slot before an H264 packet for a
\* packet of its frame.
RECURSIVE BackwardWalkAnyTimestamp(_, _, _, _)
BackwardWalkAnyTimestamp(b, is_h264, frame_timestamp, w) ==
    LET d == b.data_buffer_[w.start_index]
        w1 == [w EXCEPT
                 !.tested_packets = @ + 1,
                 !.frame_size = @ + d.sizeBytes,
                 !.max_nack_count = Max(@, d.timesNacked),
                 !.frame_created = @ \cup {w.start_index},
                 !.min_recv_time = Min(@, d.receive_time_ms),
                 !.max_recv_time = Max(@, d.receive_time_ms),
                 !.packet_infos = Append(@, d.receive_time_ms)]
    IN IF ~is_h264 /\ b.sequence_buffer_[w.start_index].frame_begin THEN w1
       ELSE IF is_h264 /\ ~w1.is_h264_keyframe
               /\ (~d.h264.present \/ Len(d.h264.nalus) >= kMaxNalusPerPacket)
       THEN [w1 EXCEPT !.aborted = TRUE]
       ELSE
         LET w2 == IF is_h264 /\ ~w1.is_h264_keyframe
                   THEN LET sc == ScanNalus(w1, d.h264)
                        IN [sc EXCEPT !.is_h264_keyframe = IsKeyframe(b, sc)]
                   ELSE w1
             prev == PrevIndex(b, w2.start_index)
             w3 == [w2 EXCEPT !.start_index = prev]
         IN IF w2.tested_packets = b.size_ THEN w2
            ELSE IF is_h264
                    /\ ~b.sequence_buffer_[prev].used
            THEN w3
            ELSE BackwardWalkAnyTimestamp(b, is_h264, frame_timestamp,
                              [w3 EXCEPT !.start_seq_num = U16(@ - 1)])

\* The backward walk from the frame's last packet (the while (true) loop).
\* w holds the loop's locals and the frame_created marks it sets.
RECURSIVE BackwardWalk(_, _, _, _)
BackwardWalk(b, is_h264, frame_timestamp, w) ==
    LET d == b.data_buffer_[w.start_index]
        w1 == [w EXCEPT
                 !.tested_packets = @ + 1,
                 !.frame_size = @ + d.sizeBytes,
                 !.max_nack_count = Max(@, d.timesNacked),
                 !.frame_created = @ \cup {w.start_index},
                 !.min_recv_time = Min(@, d.receive_time_ms),
                 !.max_recv_time = Max(@, d.receive_time_ms),
                 !.packet_infos = Append(@, d.receive_time_ms)]
    IN IF ~is_h264 /\ b.sequence_buffer_[w.start_index].frame_begin THEN w1
       ELSE IF is_h264 /\ ~w1.is_h264_keyframe
               /\ (~d.h264.present \/ Len(d.h264.nalus) >= kMaxNalusPerPacket)
       THEN [w1 EXCEPT !.aborted = TRUE]
       ELSE
         LET w2 == IF is_h264 /\ ~w1.is_h264_keyframe
                   THEN LET sc == ScanNalus(w1, d.h264)
                        IN [sc EXCEPT !.is_h264_keyframe = IsKeyframe(b, sc)]
                   ELSE w1
             prev == PrevIndex(b, w2.start_index)
             w3 == [w2 EXCEPT !.start_index = prev]
         IN IF w2.tested_packets = b.size_ THEN w2
            ELSE IF is_h264
                    /\ (~b.sequence_buffer_[prev].used
                        \/ b.data_buffer_[prev].timestamp # frame_timestamp)
            THEN w3
            ELSE BackwardWalk(b, is_h264, frame_timestamp,
                              [w3 EXCEPT !.start_seq_num = U16(@ - 1)])

\* The slots start_index, start_index + 1, ... before stop_index.
RECURSIVE UnmarkRange(_, _, _)
UnmarkRange(b, start_index, stop_index) ==
    IF start_index = stop_index THEN {}
    ELSE {start_index}
           \cup UnmarkRange(b, (start_index + 1) % b.size_, stop_index)

SetFrameCreated(b, indices, value) ==
    [b EXCEPT !.sequence_buffer_ =
        [i \in DOMAIN @ |->
           IF i \in indices THEN [@[i] EXCEPT !.frame_created = value]
           ELSE @[i]]]

\* A FindFrames that leaves packet_infos in the order of the walk.
ReverseSkipped(q) == q

Reverse(q) == [k \in 1 .. Len(q) |-> q[Len(q) + 1 - k]]

\* What the body of "if (sequence_buffer_[index].frame_end)" gives: the
\* buffer, whether the body left FindFrames by a return statement, the frame
\* it built and whether the process ended in it.
Assembled(b, returned, frame, fault) ==
    [b |-> b, returned |-> returned, frame |-> frame, fault |-> fault]

\* A backward walk that starts with a frame size of one byte too few.
WalkStartShort(b, seq_num) ==
    [start_index |-> Index(b, seq_num), start_seq_num |-> seq_num,
     tested_packets |-> 0, frame_size |-> -1, max_nack_count |-> -1,
     min_recv_time |-> b.data_buffer_[Index(b, seq_num)].receive_time_ms,
     max_recv_time |-> b.data_buffer_[Index(b, seq_num)].receive_time_ms,
     packet_infos |-> << >>, frame_created |-> {},
     has_h264_sps |-> FALSE, has_h264_pps |-> FALSE,
     has_h264_idr |-> FALSE, is_h264_keyframe |-> FALSE,
     aborted |-> FALSE]

\* The locals of the backward walk before its first iteration.
WalkStart(b, seq_num) ==
    [start_index |-> Index(b, seq_num), start_seq_num |-> seq_num,
     tested_packets |-> 0, frame_size |-> 0, max_nack_count |-> -1,
     min_recv_time |-> b.data_buffer_[Index(b, seq_num)].receive_time_ms,
     max_recv_time |-> b.data_buffer_[Index(b, seq_num)].receive_time_ms,
     packet_infos |-> << >>, frame_created |-> {},
     has_h264_sps |-> FALSE, has_h264_pps |-> FALSE,
     has_h264_idr |-> FALSE, is_h264_keyframe |-> FALSE,
     aborted |-> FALSE]

IsH264(b, seq_num) == b.data_buffer_[Index(b, seq_num)].codec = "h264"

\* The frame is built from the packets first .. seq_num and they are freed.
EmitFrame(b, seq_num, w, image, cleared) ==
    IF cleared.fault # "none" THEN Assembled(b, FALSE, None, cleared.fault)
    ELSE Assembled(cleared.b, FALSE,
           Some([first_seq_num |-> w.start_seq_num,
                 last_seq_num |-> seq_num,
                 times_nacked |-> w.max_nack_count,
                 min_recv_time |-> w.min_recv_time,
                 max_recv_time |-> w.max_recv_time,
                 timestamp |-> Val(GetPacket(b, w.start_seq_num)).timestamp,
                 codec |-> Val(GetPacket(b, w.start_seq_num)).codec,
                 frame_type |-> Val(GetPacket(b, w.start_seq_num)).frame_type,
                 packet_infos |-> Reverse(w.packet_infos),
                 data |-> image.data]),
           "none")

CopyFrame(b, seq_num, w, image) ==
    IF image.fault # "none" THEN Assembled(b, FALSE, None, image.fault)
    ELSE EmitFrame(b, seq_num, w, image,
                   ClearInterval(b, w.start_seq_num, seq_num))

\* first_packet and last_packet are dereferenced unchecked.
LookUpFrame(b, seq_num, w) ==
    IF ~IsSome(GetPacket(b, w.start_seq_num)) \/ ~IsSome(GetPacket(b, seq_num))
    THEN Assembled(b, FALSE, None, "null_deref")
    ELSE CopyFrame(b, seq_num, w,
                   GetEncodedImageBuffer(b, w.frame_size, w.start_seq_num,
                                         seq_num))

\* A frame emission that leaves the missing set as it is.
EraseMissingUpToSkipped(b, seq_num) == b

EraseMissingUpTo(b, seq_num) ==
    [b EXCEPT !.missing_packets_ = @ \ BeforeUpperBound(@, seq_num)]

\* An H264 frame that is no keyframe is held back while a packet at or
\* before its first one is missing.
HasGap(b, is_h264, w) ==
    /\ is_h264
    /\ b.data_buffer_[w.start_index].temporal_id = kNoTemporalIdx
    /\ ~w.is_h264_keyframe
    /\ BeforeUpperBound(b.missing_packets_, w.start_seq_num) # {}

CheckGap(b, seq_num, is_h264, w) ==
    IF HasGap(b, is_h264, w)
    THEN Assembled(
           SetFrameCreated(
             b,
             UnmarkRange(b, w.start_index, (Index(b, seq_num) + 1) % b.size_),
             FALSE),
           TRUE, None, "none")
    ELSE LookUpFrame(EraseMissingUpTo(b, seq_num), seq_num, w)

SetFrameType(b, is_h264, w) ==
    IF is_h264
    THEN [b EXCEPT !.data_buffer_[Index(b, w.start_seq_num)].frame_type =
            IF w.is_h264_keyframe THEN "key" ELSE "delta"]
    ELSE b

AfterWalk(b, seq_num, is_h264, w) ==
    IF w.aborted THEN Assembled(b, TRUE, None, "none")
    ELSE CheckGap(SetFrameType(b, is_h264, w), seq_num, is_h264, w)

MarkWalked(b, seq_num, w) ==
    AfterWalk(SetFrameCreated(b, w.frame_created, TRUE), seq_num,
              IsH264(b, seq_num), w)

AssembleFrame(b, seq_num) ==
    MarkWalked(b, seq_num,
               BackwardWalk(b, IsH264(b, seq_num),
                            b.data_buffer_[Index(b, seq_num)].timestamp,
                            WalkStart(b, seq_num)))

Found(b, found_frames, fault) ==
    [b |-> b, found_frames |-> found_frames, fault |-> fault]

\* A FindFrames that never marks a packet continuous.
SetContinuousSkipped(b, seq_num) == b

SetContinuous(b, seq_num) ==
    [b EXCEPT !.sequence_buffer_[Index(b, seq_num)].continuous = TRUE]

\* for (i = 0; i < size_ && PotentialNewFrame(seq_num); ++i) { ... }
RECURSIVE FindFramesLoop(_, _, _, _)
\* A FindFrames that puts each new frame in front of the ones found before.
AfterFramePrepend(a, seq_num, i, found_frames) ==
    IF a.fault # "none" THEN Found(a.b, found_frames, a.fault)
    ELSE IF a.returned THEN Found(a.b, found_frames, "none")
    ELSE FindFramesLoop(a.b, U16(seq_num + 1), i + 1,
                        << Val(a.frame) >> \o found_frames)

AfterFrame(a, seq_num, i, found_frames) ==
    IF a.fault # "none" THEN Found(a.b, found_frames, a.fault)
    ELSE IF a.returned THEN Found(a.b, found_frames, "none")
    ELSE FindFramesLoop(a.b, U16(seq_num + 1), i + 1,
                        Append(found_frames, Val(a.frame)))

\* A FindFrames that takes every continuous packet for the end of a frame.
FindFramesBodyAnyEnd(b, seq_num, i, found_frames) ==
    AfterFrame(AssembleFrame(b, seq_num), seq_num, i, found_frames)

FindFramesBody(b, seq_num, i, found_frames) ==
    IF ~b.sequence_buffer_[Index(b, seq_num)].frame_end
    THEN FindFramesLoop(b, U16(seq_num + 1), i + 1, found_frames)
    ELSE AfterFrame(AssembleFrame(b, seq_num), seq_num, i, found_frames)

FindFramesLoop(b, seq_num, i, found_frames) ==
    IF ~(i < b.size_ /\ PotentialNewFrame(b, seq_num))
    THEN Found(b, found_frames, "none")
    ELSE FindFramesBody(SetContinuous(b, seq_num), seq_num, i, found_frames)

FindFrames(b, seq_num) == FindFramesLoop(b, seq_num, 0, << >>)

(* ---------------------- the critical sections ------------------------- *)

\* Each gives the buffer when the section is left, the statement that
\* leaves it (at), the frames found and whether the process ended in it.

Section(b, at, found_frames, fault) ==
    [b |-> b, at |-> at, found_frames |-> found_frames, fault |-> fault]

ScopeEnd(f) == Section(f.b, "scope_end", f.found_frames, f.fault)

\* A store that writes the slot's metadata and not the packet.
StorePacketMetadataOnly(b, packet) ==
    [b EXCEPT
       !.sequence_buffer_[Index(b, packet.seqNum)] =
           [seq_num |-> packet.seqNum, frame_begin |-> packet.is_first,
            frame_end |-> packet.is_last, used |-> TRUE,
            continuous |-> FALSE, frame_created |-> FALSE]]

StorePacket(b, packet) ==
    [b EXCEPT
       !.sequence_buffer_[Index(b, packet.seqNum)] =
           [seq_num |-> packet.seqNum, frame_begin |-> packet.is_first,
            frame_end |-> packet.is_last, used |-> TRUE,
            continuous |-> FALSE, frame_created |-> FALSE],
       !.data_buffer_[Index(b, packet.seqNum)] = packet]

InsertStore(b, packet) ==
    ScopeEnd(FindFrames(
               UpdateMissingPackets(StorePacket(b, packet), packet.seqNum),
               packet.seqNum))

InsertAfterExpand(b, packet) ==
    IF b.sequence_buffer_[Index(b, packet.seqNum)].used
    THEN Section(Clear(b), "return_overflow", << >>, "none")
    ELSE InsertStore(b, packet)

\* An InsertPacket that does not try to grow a full buffer.
InsertAtSlotNoGrowth(b, packet) ==
    IF ~b.sequence_buffer_[Index(b, packet.seqNum)].used
    THEN InsertStore(b, packet)
    ELSE IF b.data_buffer_[Index(b, packet.seqNum)].seqNum = packet.seqNum
    THEN Section(b, "return_duplicate", << >>, "none")
    ELSE InsertAfterExpand(b, packet)

\* An InsertPacket that stores a duplicate over the packet it has.
InsertAtSlotStoresDuplicate(b, packet) ==
    IF ~b.sequence_buffer_[Index(b, packet.seqNum)].used
          \/ b.data_buffer_[Index(b, packet.seqNum)].seqNum = packet.seqNum
    THEN InsertStore(b, packet)
    ELSE InsertAfterExpand(ExpandWhileUsed(b, packet.seqNum), packet)

InsertAtSlot(b, packet) ==
    IF ~b.sequence_buffer_[Index(b, packet.seqNum)].used
    THEN InsertStore(b, packet)
    ELSE IF b.data_buffer_[Index(b, packet.seqNum)].seqNum = packet.seqNum
    THEN Section(b, "return_duplicate", << >>, "none")
    ELSE InsertAfterExpand(ExpandWhileUsed(b, packet.seqNum), packet)

\* The update of first_seq_num_ at the head of InsertPacket.
IsOld(b, seq_num) ==
    b.first_packet_received_ /\ AheadOf(b.first_seq_num_, seq_num)

\* An InsertPacket that moves first_seq_num_ to every packet that arrives.
SetFirstSeqNumAlways(b, seq_num) ==
    [b EXCEPT !.first_seq_num_ = seq_num,
              !.first_packet_received_ = TRUE]

SetFirstSeqNum(b, seq_num) ==
    IF ~b.first_packet_received_
    THEN [b EXCEPT !.first_seq_num_ = seq_num,
                   !.first_packet_received_ = TRUE]
    ELSE IF AheadOf(b.first_seq_num_, seq_num)
    THEN [b EXCEPT !.first_seq_num_ = seq_num]
    ELSE b

InsertAfterTimestamp(b, packet) ==
    IF IsOld(b, packet.seqNum) /\ b.is_cleared_to_first_seq_num_
    THEN Section(b, "return_old", << >>, "none")
    ELSE InsertAtSlot(SetFirstSeqNum(b, packet.seqNum), packet)

InsertPacketSection(b, packet) ==
    InsertAfterTimestamp(OnTimestampReceived(b, packet.timestamp), packet)

\* A ClearTo loop that frees every slot it visits.
ClearSlotAlways(b, index, seq_num) ==
    [b EXCEPT !.data_buffer_[index].dataPtr = None,
              !.sequence_buffer_[index].used = FALSE,
              !.first_seq_num_ = U16(@ + 1)]

ClearSlotIfBehind(b, index, seq_num) ==
    IF AheadOf(seq_num, b.sequence_buffer_[index].seq_num)
    THEN [b EXCEPT !.data_buffer_[index].dataPtr = None,
                   !.sequence_buffer_[index].used = FALSE,
                   !.first_seq_num_ = U16(@ + 1)]
    ELSE [b EXCEPT !.first_seq_num_ = U16(@ + 1)]

RECURSIVE ClearToLoop(_, _, _, _)
ClearToLoop(b, seq_num, i, iterations) ==
    IF i >= iterations THEN [b |-> b, fault |-> "none"]
    ELSE IF b.data_buffer_[Index(b, b.first_seq_num_)].seqNum
              # b.sequence_buffer_[Index(b, b.first_seq_num_)].seq_num
    THEN [b |-> b, fault |-> "dcheck"]
    ELSE ClearToLoop(ClearSlotIfBehind(b, Index(b, b.first_seq_num_), seq_num),
                     seq_num, i + 1, iterations)

\* erase(begin, --upper_bound(seq_num)): the last entry that is not ahead
\* of seq_num stays.
EraseMissingBefore(missing, behind) ==
    IF behind = {} THEN missing ELSE missing \ (behind \ {LastOf(behind)})

\* A ClearTo that leaves the cleared-to flag as it was.
ClearToEndKeepsFlag(looped, seq_num) ==
    Section([looped.b EXCEPT
               !.first_seq_num_ = seq_num,
               !.missing_packets_ =
                   EraseMissingBefore(@, BeforeUpperBound(@, seq_num))],
            "scope_end", << >>, looped.fault)

ClearToEnd(looped, seq_num) ==
    Section([looped.b EXCEPT
               !.first_seq_num_ = seq_num,
               !.is_cleared_to_first_seq_num_ = TRUE,
               !.missing_packets_ =
                   EraseMissingBefore(@, BeforeUpperBound(@, seq_num))],
            "scope_end", << >>, looped.fault)

\* A ClearTo whose loop runs over the whole distance.
ClearToIterationsUncapped(b, seq_num) ==
    ForwardDiff(b.first_seq_num_, seq_num)

\* size_t iterations = std::min(diff, size_), for the incremented seq_num.
ClearToIterations(b, seq_num) ==
    Min(ForwardDiff(b.first_seq_num_, seq_num), b.size_)

\* A ClearTo without the early return of a call behind an earlier one.
ClearToAlways(b, seq_num) ==
    IF ~b.first_packet_received_
    THEN Section(b, "return_no_packet", << >>, "none")
    ELSE ClearToEnd(
           ClearToLoop(b, U16(seq_num + 1), 0,
                       ClearToIterations(b, U16(seq_num + 1))),
           U16(seq_num + 1))

ClearToSection(b, seq_num) ==
    IF b.is_cleared_to_first_seq_num_ /\ AheadOf(b.first_seq_num_, seq_num)
    THEN Section(b, "return_cleared_past", << >>, "none")
    ELSE IF ~b.first_packet_received_
    THEN Section(b, "return_no_packet", << >>, "none")
    ELSE ClearToEnd(
           ClearToLoop(b, U16(seq_num + 1), 0,
                       ClearToIterations(b, U16(seq_num + 1))),
           U16(seq_num + 1))

ClearSection(b) == Section(Clear(b), "scope_end", << >>, "none")

PaddingReceivedSection(b, seq_num) ==
    ScopeEnd(FindFrames(UpdateMissingPackets(b, seq_num), U16(seq_num + 1)))

(* ------------------------------ state --------------------------------- *)

VARIABLES
    size_, max_size_, first_seq_num_, first_packet_received_,
    is_cleared_to_first_seq_num_, data_buffer_, sequence_buffer_,
    unique_frames_seen_, sps_pps_idr_is_h264_keyframe_,
    newest_inserted_seq_num_, missing_packets_,
    rtp_timestamps_history_set_, rtp_timestamps_history_queue_,
    crit_,          \* the thread that holds the lock, or NoThread
    pc,             \* where each thread is
    op,             \* the operation each thread is in, or was in last
    retval,         \* what that operation returned
    found_frames,   \* each thread's frames not yet handed to the callback
    delivered,      \* the frames its current call has handed to the callback
    calls,          \* number of calls made so far
    network,        \* the packets that can arrive, a sequence
    start_buffer_size,  \* the capacity the buffer was constructed with
    fault           \* how the process ended, or "none"

\* A failed RTC_CHECK or RTC_DCHECK ends the process.  A dereference of a
\* null pointer is undefined behaviour: nothing is known of the process
\* after it.  In both cases fault records what happened, the thread stops
\* inside the call with the lock held, the buffer is shown as it was before
\* the call, and no further call is made: the properties speak of the
\* behaviour up to that call.

buffer_vars ==
    << size_, max_size_, first_seq_num_, first_packet_received_,
       is_cleared_to_first_seq_num_, data_buffer_, sequence_buffer_,
       unique_frames_seen_, sps_pps_idr_is_h264_keyframe_,
       newest_inserted_seq_num_, missing_packets_,
       rtp_timestamps_history_set_, rtp_timestamps_history_queue_ >>

thread_vars == << crit_, pc, op, retval, found_frames, delivered >>

config_vars == << network, start_buffer_size >>

vars == << buffer_vars, thread_vars, calls, config_vars, fault >>

Threads == {"T1", "T2"}

NoThread == "none"

Buf ==
    [size_ |-> size_, max_size_ |-> max_size_,
     first_seq_num_ |-> first_seq_num_,
     first_packet_received_ |-> first_packet_received_,
     is_cleared_to_first_seq_num_ |-> is_cleared_to_first_seq_num_,
     data_buffer_ |-> data_buffer_, sequence_buffer_ |-> sequence_buffer_,
     unique_frames_seen_ |-> unique_frames_seen_,
     sps_pps_idr_is_h264_keyframe_ |-> sps_pps_idr_is_h264_keyframe_,
     newest_inserted_seq_num_ |-> newest_inserted_seq_num_,
     missing_packets_ |-> missing_packets_,
     rtp_timestamps_history_set_ |-> rtp_timestamps_history_set_,
     rtp_timestamps_history_queue_ |-> rtp_timestamps_history_queue_]

SetBuf(b) ==
    /\ size_' = b.size_
    /\ max_size_' = b.max_size_
    /\ first_seq_num_' = b.first_seq_num_
    /\ first_packet_received_' = b.first_packet_received_
    /\ is_cleared_to_first_seq_num_' = b.is_cleared_to_first_seq_num_
    /\ data_buffer_' = b.data_buffer_
    /\ sequence_buffer_' = b.sequence_buffer_
    /\ unique_frames_seen_' = b.unique_frames_seen_
    /\ sps_pps_idr_is_h264_keyframe_' = b.sps_pps_idr_is_h264_keyframe_
    /\ newest_inserted_seq_num_' = b.newest_inserted_seq_num_
    /\ missing_packets_' = b.missing_packets_
    /\ rtp_timestamps_history_set_' = b.rtp_timestamps_history_set_
    /\ rtp_timestamps_history_queue_' = b.rtp_timestamps_history_queue_

\* PacketBuffer::PacketBuffer
Constructed(start, max, sps_pps_idr) ==
    /\ start_buffer_size = start
    /\ size_ = start
    /\ max_size_ = max
    /\ first_seq_num_ = 0
    /\ first_packet_received_ = FALSE
    /\ is_cleared_to_first_seq_num_ = FALSE
    /\ data_buffer_ = [i \in 0 .. (start - 1) |-> EmptyPacket]
    /\ sequence_buffer_ = [i \in 0 .. (start - 1) |-> EmptyInfo]
    /\ unique_frames_seen_ = 0
    /\ sps_pps_idr_is_h264_keyframe_ = sps_pps_idr
    /\ newest_inserted_seq_num_ = None
    /\ missing_packets_ = {}
    /\ rtp_timestamps_history_set_ = {}
    /\ rtp_timestamps_history_queue_ = << >>

\* The NALUs of the packet at s in an H264 stream of delta frames: every
\* packet carries one slice.
DeltaNalus(s, n) == << "slice" >>

\* A stream is the sequence of its packets.  The streams the sender may
\* produce from first on: frames of n packets of the generic codec (n = 0:
\* no frame boundaries) or of H264 delta frames.
GenericStream(first, n) ==
    [k \in 1 .. NumSeqs |->
       StreamPacket(first, U16(first + k - 1), n, "generic", << >>, 0)]

H264DeltaStream(first, n) ==
    [k \in 1 .. NumSeqs |->
       StreamPacket(first, U16(first + k - 1), n, "h264",
                    DeltaNalus(U16(first + k - 1), n), 0)]

Streams(first) ==
    { GenericStream(first, n) : n \in 0 .. MaxFrameLen }
      \cup { H264DeltaStream(first, n) : n \in 1 .. MaxFrameLen }

\* The capacities a buffer can be constructed with.
Capacities ==
    { << Pow2(start), Pow2(bits) >> :
        start \in 0 .. MaxBits, bits \in 0 .. MaxBits }

ThreadsStart(running) ==
    /\ crit_ = NoThread
    /\ pc = [t \in Threads |-> IF t \in running THEN "idle" ELSE "off"]
    /\ op = [t \in Threads |-> "none"]
    /\ retval = [t \in Threads |-> "none"]
    /\ found_frames = [t \in Threads |-> << >>]
    /\ delivered = [t \in Threads |-> << >>]
    /\ calls = 0
    /\ fault = "none"

Init ==
    /\ \E c \in Capacities : c[1] <= c[2] /\ Constructed(c[1], c[2], FALSE)
    /\ network \in Streams(65534)
    /\ ThreadsStart({"T1"})

(* ----------------------------- actions -------------------------------- *)

Ready(t) == pc[t] = "idle"

\* A call that runs its critical section without waiting for the lock.
EnterWithoutLock(t, o, r, early) ==
    /\ Ready(t)
    /\ fault = "none"
    /\ calls < MaxOps
    /\ calls' = calls + 1
    /\ op' = [op EXCEPT ![t] = o]
    /\ delivered' = [delivered EXCEPT ![t] = << >>]
    /\ UNCHANGED config_vars
    /\ IF r.fault # "none"
       THEN /\ fault' = r.fault
            /\ pc' = [pc EXCEPT ![t] = "crashed"]
            /\ crit_' = t
            /\ retval' = [retval EXCEPT ![t] = "none"]
            /\ UNCHANGED << buffer_vars, found_frames >>
       ELSE /\ SetBuf(r.b)
            /\ crit_' = t
            /\ pc' = [pc EXCEPT ![t] = r.at]
            /\ retval' = [retval EXCEPT ![t] = early]
            /\ found_frames' = [found_frames EXCEPT ![t] = r.found_frames]
            /\ UNCHANGED fault

\* Thread t calls operation o, takes the lock and runs the critical
\* section, which gives r; it stops at the statement that leaves the section.
Enter(t, o, r, early) ==
    /\ Ready(t)
    /\ crit_ = NoThread
    /\ fault = "none"
    /\ calls < MaxOps
    /\ calls' = calls + 1
    /\ op' = [op EXCEPT ![t] = o]
    /\ delivered' = [delivered EXCEPT ![t] = << >>]
    /\ UNCHANGED config_vars
    /\ IF r.fault # "none"
       THEN /\ fault' = r.fault
            /\ pc' = [pc EXCEPT ![t] = "crashed"]
            /\ crit_' = t
            /\ retval' = [retval EXCEPT ![t] = "none"]
            /\ UNCHANGED << buffer_vars, found_frames >>
       ELSE /\ SetBuf(r.b)
            /\ crit_' = t
            /\ pc' = [pc EXCEPT ![t] = r.at]
            /\ retval' = [retval EXCEPT ![t] = early]
            /\ found_frames' = [found_frames EXCEPT ![t] = r.found_frames]
            /\ UNCHANGED fault

InsertPacketReturns(at) ==
    IF at = "return_overflow" THEN "false"
    ELSE IF at \in {"return_old", "return_duplicate"} THEN "true"
    ELSE "none"

EnterInsertPacket(t, r) ==
    Enter(t, "InsertPacket", r, InsertPacketReturns(r.at))

InsertPacket(t, packet) ==
    EnterInsertPacket(t, InsertPacketSection(Buf, packet))

PaddingReceived(t, seq_num) ==
    Enter(t, "PaddingReceived", PaddingReceivedSection(Buf, seq_num), "none")

ClearTo(t, seq_num) ==
    Enter(t, "ClearTo", ClearToSection(Buf, seq_num), "void")

ClearAll(t) == Enter(t, "Clear", ClearSection(Buf), "void")

SectionExits ==
    {"return_old", "return_duplicate", "return_overflow", "scope_end",
     "return_cleared_past", "return_no_packet"}

\* A scope that ends without releasing the lock.
UnlockKeepsLock(t) ==
    /\ pc[t] \in SectionExits
    /\ crit_ = t
    /\ pc' = [pc EXCEPT ![t] =
                IF pc[t] = "scope_end"
                   /\ op[t] \in {"InsertPacket", "PaddingReceived"}
                THEN "deliver" ELSE "done"]
    /\ UNCHANGED << buffer_vars, crit_, op, retval, found_frames, delivered,
                    calls, config_vars, fault >>

\* The CritScope is destroyed: the lock is released.
Unlock(t) ==
    /\ pc[t] \in SectionExits
    /\ crit_ = t
    /\ crit_' = NoThread
    /\ pc' = [pc EXCEPT ![t] =
                IF pc[t] = "scope_end"
                   /\ op[t] \in {"InsertPacket", "PaddingReceived"}
                THEN "deliver" ELSE "done"]
    /\ UNCHANGED << buffer_vars, op, retval, found_frames, delivered,
                    calls, config_vars, fault >>

\* A delivery loop that hands the frame over and keeps it in the vector.
OnAssembledFrameKeepsFrame(t) ==
    /\ pc[t] = "deliver"
    /\ found_frames[t] # << >>
    /\ pc' = [pc EXCEPT ![t] = "callback"]
    /\ delivered' = [delivered EXCEPT ![t] = Append(@, Head(found_frames[t]))]
    /\ UNCHANGED << buffer_vars, crit_, op, retval, found_frames, calls,
                    config_vars, fault >>

\* assembled_frame_callback_->OnAssembledFrame(std::move(frame))
OnAssembledFrame(t) ==
    /\ pc[t] = "deliver"
    /\ found_frames[t] # << >>
    /\ pc' = [pc EXCEPT ![t] = "callback"]
    /\ delivered' = [delivered EXCEPT ![t] = Append(@, Head(found_frames[t]))]
    /\ found_frames' = [found_frames EXCEPT ![t] = Tail(@)]
    /\ UNCHANGED << buffer_vars, crit_, op, retval, calls, config_vars, fault >>

CallbackReturns(t) ==
    /\ pc[t] = "callback"
    /\ pc' = [pc EXCEPT ![t] = "deliver"]
    /\ UNCHANGED << buffer_vars, crit_, op, retval, found_frames, delivered,
                    calls, config_vars, fault >>

\* The end of InsertPacket (return true) and of PaddingReceived.
Return(t) ==
    /\ pc[t] = "deliver"
    /\ found_frames[t] = << >>
    /\ pc' = [pc EXCEPT ![t] = "done"]
    /\ retval' = [retval EXCEPT ![t] =
                    IF op[t] = "InsertPacket" THEN "true" ELSE "void"]
    /\ UNCHANGED << buffer_vars, crit_, op, found_frames, delivered,
                    calls, config_vars, fault >>

\* The caller is done with the result and is ready for its next call.
Forget(t) ==
    /\ pc[t] = "done"
    /\ pc' = [pc EXCEPT ![t] = "idle"]
    /\ op' = [op EXCEPT ![t] = "none"]
    /\ retval' = [retval EXCEPT ![t] = "none"]
    /\ delivered' = [delivered EXCEPT ![t] = << >>]
    /\ UNCHANGED << buffer_vars, crit_, found_frames, calls, config_vars,
                    fault >>

Next ==
    \E t \in Threads :
       \/ \E k \in DOMAIN network : InsertPacket(t, network[k])
       \/ \E seq_num \in SeqNums : PaddingReceived(t, seq_num)
       \/ \E seq_num \in SeqNums : ClearTo(t, seq_num)
       \/ ClearAll(t)
       \/ Unlock(t)
       \/ OnAssembledFrame(t)
       \/ CallbackReturns(t)
       \/ Return(t)
       \/ Forget(t)

Spec == Init /\ [][Next]_vars

(* ---------------------- two calling threads --------------------------- *)

\* Both threads call the buffer.
InitThreads ==
    /\ \E c \in Capacities : c[1] <= c[2] /\ Constructed(c[1], c[2], FALSE)
    /\ network \in Streams(65534)
    /\ ThreadsStart(Threads)

SpecThreads == InitThreads /\ [][Next]_vars

(* ------------------- H264 streams with marked packets ----------------- *)

\* What the H264 header of a packet can hold besides one slice: nothing (the
\* header is absent), as many NALUs as the header has room for, an IDR
\* slice, or SPS, PPS and IDR.
NaluKinds == {"no_header", "too_many", "idr", "sps_pps_idr"}

KindHeader(kind) ==
    IF kind = "no_header" THEN NoH264Header
    ELSE IF kind = "too_many"
    THEN H264Header([j \in 1 .. kMaxNalusPerPacket |-> "slice"])
    ELSE IF kind = "idr" THEN H264Header(<< "idr" >>)
    ELSE H264Header(<< "sps", "pps", "idr" >>)

\* An H264 stream of n-packet frames whose m-th packet is of the kind.
H264Stream(first, n, m, kind) ==
    [k \in 1 .. NumSeqs |->
       IF k = m
       THEN [StreamPacket(first, U16(first + k - 1), n, "h264", << >>, 0)
               EXCEPT !.h264 = KindHeader(kind)]
       ELSE StreamPacket(first, U16(first + k - 1), n, "h264",
                         DeltaNalus(U16(first + k - 1), n), 0)]

H264Streams(first) ==
    { H264Stream(first, n, m, kind) :
        n \in 1 .. MaxFrameLen, m \in 1 .. NumSeqs, kind \in NaluKinds }

\* A buffer that can grow to the largest capacity, with either setting of
\* the WebRTC-SpsPpsIdrIsH264Keyframe field trial.
InitH264 ==
    /\ \E c \in Capacities : \E sps_pps_idr \in BOOLEAN :
          /\ c[1] <= c[2] /\ c[2] = Pow2(MaxBits)
          /\ Constructed(c[1], c[2], sps_pps_idr)
    /\ network \in H264Streams(65534)
    /\ ThreadsStart({"T1"})

SpecH264 == InitH264 /\ [][Next]_vars

(* --------------- an H264 keyframe without a begin mark ---------------- *)

\* An H264 stream of one-packet frames whose m-th packet is an IDR frame
\* that is not marked as the first packet of its frame.
UnmarkedKeyStream(first, m) ==
    [k \in 1 .. NumSeqs |->
       IF k = m
       THEN [StreamPacket(first, U16(first + k - 1), 1, "h264",
                          << "idr" >>, 0)
               EXCEPT !.is_first = FALSE]
       ELSE StreamPacket(first, U16(first + k - 1), 1, "h264",
                         DeltaNalus(U16(first + k - 1), 1), 0)]

InitUnmarkedKey ==
    /\ \E c \in Capacities :
          c[1] <= c[2] /\ c[2] = Pow2(MaxBits) /\ Constructed(c[1], c[2], FALSE)
    /\ \E m \in 2 .. NumSeqs : network = UnmarkedKeyStream(65534, m)
    /\ ThreadsStart({"T1"})

SpecUnmarkedKey == InitUnmarkedKey /\ [][Next]_vars

(* ------------------- sequence numbers far apart ----------------------- *)

\* How far from the first sequence number the packets and paddings of a
\* stream with large gaps are: gaps below, at and above kMaxPaddingAge.
JumpDistances == << 0, 2, kMaxPaddingAge, (2 * kMaxPaddingAge) + 1 >>

FarSeqNums == { U16(65534 + JumpDistances[k]) : k \in DOMAIN JumpDistances }

\* One-packet frames at those sequence numbers.
FarStream ==
    [k \in DOMAIN JumpDistances |->
       StreamPacket(65534, U16(65534 + JumpDistances[k]), 1, "generic",
                    << >>, 0)]

InitJumps ==
    /\ Constructed(1, Pow2(MaxBits), FALSE)
    /\ network = FarStream
    /\ ThreadsStart({"T1"})

NextJumps ==
    \E t \in Threads :
       \/ \E k \in DOMAIN network : InsertPacket(t, network[k])
       \/ \E seq_num \in FarSeqNums : PaddingReceived(t, seq_num)
       \/ \E seq_num \in FarSeqNums : ClearTo(t, seq_num)
       \/ ClearAll(t)
       \/ Unlock(t)
       \/ OnAssembledFrame(t)
       \/ CallbackReturns(t)
       \/ Return(t)
       \/ Forget(t)

SpecJumps == InitJumps /\ [][NextJumps]_vars

(* -------------- sequence numbers half the range apart ----------------- *)

\* Where the packets and paddings of a stream are that moves on by more
\* than kBreakpoint in two jumps while its early packets stay stored.
LapDistances == << 0, 40001, 20002, 40503 >>

LapSeqNums == { LapDistances[k] : k \in DOMAIN LapDistances }

\* Packets at those sequence numbers: the last is a frame of its own, the
\* others have no frame boundaries and stay in the buffer.
LapStream ==
    [k \in DOMAIN LapDistances |->
       StreamPacket(LapDistances[k], LapDistances[k],
                    IF k = Len(LapDistances) THEN 1 ELSE 0,
                    "generic", << >>, 0)]

InitLaps ==
    /\ Constructed(1, Pow2(MaxBits), FALSE)
    /\ network = LapStream
    /\ ThreadsStart({"T1"})

NextLaps ==
    \E t \in Threads :
       \/ \E k \in DOMAIN network : InsertPacket(t, network[k])
       \/ \E seq_num \in LapSeqNums : PaddingReceived(t, seq_num)
       \/ \E seq_num \in LapSeqNums : ClearTo(t, seq_num)
       \/ ClearAll(t)
       \/ Unlock(t)
       \/ OnAssembledFrame(t)
       \/ CallbackReturns(t)
       \/ Return(t)
       \/ Forget(t)

SpecLaps == InitLaps /\ [][NextLaps]_vars

(* ------------------ packets arriving in a given order ----------------- *)

Range(q) == { q[k] : k \in DOMAIN q }

\* The orders in which up to MaxOps packets of a stream can arrive; a
\* packet can arrive more than once.
ArrivalOrders(stream) ==
    UNION { [1 .. len -> Range(stream)] : len \in 1 .. MaxOps }

\* The only calls are InsertPacket of network[1], network[2], ... in turn.
InitArrivals ==
    /\ \E c \in Capacities : c[1] <= c[2] /\ Constructed(c[1], c[2], FALSE)
    /\ \E first \in {65534, 65535} : \E stream \in Streams(first) :
          network \in ArrivalOrders(stream)
    /\ ThreadsStart({"T1"})

NextArrivals ==
    \E t \in Threads :
       \/ calls < Len(network) /\ InsertPacket(t, network[calls + 1])
       \/ Unlock(t)
       \/ OnAssembledFrame(t)
       \/ CallbackReturns(t)
       \/ Return(t)
       \/ Forget(t)

SpecArrivals == InitArrivals /\ [][NextArrivals]_vars

(* ---------------- packets that were retransmitted --------------------- *)

\* The number of retransmission requests the packet at s has seen.
NackedTimes(s) == (2 * s) % 3

\* Streams of frames of n packets whose packets have seen different numbers
\* of retransmission requests and have arrived at different times.
NackedStream(first, n, codec) ==
    [k \in 1 .. NumSeqs |->
       StreamPacket(first, U16(first + k - 1), n, codec,
                    DeltaNalus(U16(first + k - 1), n),
                    NackedTimes(U16(first + k - 1)))]

InitNacked ==
    /\ \E c \in Capacities : c[1] <= c[2] /\ Constructed(c[1], c[2], FALSE)
    /\ \E n \in 1 .. MaxFrameLen : \E codec \in {"generic", "h264"} :
          network \in ArrivalOrders(NackedStream(65534, n, codec))
    /\ ThreadsStart({"T1"})

SpecNacked == InitNacked /\ [][NextArrivals]_vars

(* ---------------- a buffer with a long timestamp history -------------- *)

\* The numbers of frames the buffer has seen before the stream starts.
HistoryLengths == { kMaxTimestampsHistory - 2, kMaxTimestampsHistory }

\* The i-th of count one-packet frames that end just before first; their
\* timestamps are 1, 2, .., below every timestamp of the stream.
EarlierPacket(first, count, i) ==
    [StreamPacket(U16(first - count), U16((first - count) + (i - 1)), 1,
                  "generic", << >>, 0)
       EXCEPT !.timestamp = i]

\* PacketBuffer::PacketBuffer, as a value.
NewBuffer(start, max, sps_pps_idr) ==
    [size_ |-> start, max_size_ |-> max,
     first_seq_num_ |-> 0,
     first_packet_received_ |-> FALSE,
     is_cleared_to_first_seq_num_ |-> FALSE,
     data_buffer_ |-> [i \in 0 .. (start - 1) |-> EmptyPacket],
     sequence_buffer_ |-> [i \in 0 .. (start - 1) |-> EmptyInfo],
     unique_frames_seen_ |-> 0,
     sps_pps_idr_is_h264_keyframe_ |-> sps_pps_idr,
     newest_inserted_seq_num_ |-> None,
     missing_packets_ |-> {},
     rtp_timestamps_history_set_ |-> {},
     rtp_timestamps_history_queue_ |-> << >>]

\* The buffer after InsertPacket of the earlier packets lo .. hi in turn,
\* each call run to its end.
RECURSIVE AfterEarlier(_, _, _, _, _)
AfterEarlier(b, first, count, lo, hi) ==
    IF lo > hi THEN b
    ELSE IF lo = hi
    THEN InsertPacketSection(b, EarlierPacket(first, count, lo)).b
    ELSE LET half == AfterEarlier(b, first, count, lo, (lo + hi) \div 2)
         IN IF half.size_ > 0
            THEN AfterEarlier(half, first, count, ((lo + hi) \div 2) + 1, hi)
            ELSE half

\* The buffer is b.
StartsAs(b) ==
    /\ size_ = b.size_
    /\ max_size_ = b.max_size_
    /\ first_seq_num_ = b.first_seq_num_
    /\ first_packet_received_ = b.first_packet_received_
    /\ is_cleared_to_first_seq_num_ = b.is_cleared_to_first_seq_num_
    /\ data_buffer_ = b.data_buffer_
    /\ sequence_buffer_ = b.sequence_buffer_
    /\ unique_frames_seen_ = b.unique_frames_seen_
    /\ sps_pps_idr_is_h264_keyframe_ = b.sps_pps_idr_is_h264_keyframe_
    /\ newest_inserted_seq_num_ = b.newest_inserted_seq_num_
    /\ missing_packets_ = b.missing_packets_
    /\ rtp_timestamps_history_set_ = b.rtp_timestamps_history_set_
    /\ rtp_timestamps_history_queue_ = b.rtp_timestamps_history_queue_

InitHistory ==
    /\ \E count \in HistoryLengths :
          StartsAs(AfterEarlier(NewBuffer(1, Pow2(MaxBits), FALSE),
                                65534, count, 1, count))
    /\ start_buffer_size = 1
    /\ network \in { GenericStream(65534, n) : n \in 1 .. 2 }
    /\ ThreadsStart({"T1"})

SpecHistory == InitHistory /\ [][Next]_vars

(* --------------------------- properties ------------------------------- *)

UsedSlots(b) ==
    { i \in DOMAIN b.sequence_buffer_ : b.sequence_buffer_[i].used }

\* The slot of the packet's sequence number holds a packet with that number.
Stored(b, packet) ==
    /\ b.sequence_buffer_[packet.seqNum % b.size_].used
    /\ b.data_buffer_[packet.seqNum % b.size_].seqNum = packet.seqNum

\* The packet's slot holds a packet with another sequence number, and at
\* capacity max_size_ its slot would still hold a packet.
Collides(b, packet) ==
    /\ \E i \in UsedSlots(b) :
          /\ i = packet.seqNum % b.size_
          /\ b.data_buffer_[i].seqNum # packet.seqNum
    /\ \E i \in UsedSlots(b) :
          b.sequence_buffer_[i].seq_num % b.max_size_
            = packet.seqNum % b.max_size_

\* The packet is behind a point that ClearTo has cleared to.
ClearedPast(b, packet) ==
    /\ b.first_packet_received_
    /\ b.is_cleared_to_first_seq_num_
    /\ AheadOf(b.first_seq_num_, packet.seqNum)

OverflowStep(t, packet) ==
    InsertPacket(t, packet) /\ fault' = "none"
      => /\ retval'[t] = "false"
              <=> Collides(Buf, packet) /\ ~ClearedPast(Buf, packet)
         /\ retval'[t] # "false"
              => retval'[t] = "true" \/ pc'[t] = "scope_end"

\* C1: InsertPacket returns false exactly when the slot of the packet holds
\* a packet with another sequence number and is still taken when the
\* capacity has grown to max_size_ (and the packet is not dropped as older
\* than a ClearTo point); every other call that returns, returns true.
ReturnsFalseIffOverflow ==
    [][/\ \A t \in Threads : \A k \in DOMAIN network :
            OverflowStep(t, network[k])
       /\ \A t \in Threads :
            Return(t) /\ op[t] = "InsertPacket" => retval'[t] = "true"]_vars

OverflowAfterGrowth ==
    \E t \in Threads :
       /\ pc[t] = "return_overflow"
       /\ retval[t] = "false"
       /\ size_ > start_buffer_size

\* C2: when InsertPacket returns false, no slot is used, no payload is
\* held, the missing set is empty, the newest-inserted marker and the
\* first-packet and cleared-to flags are reset, and the call hands no frame
\* to the callback.
OverflowResetsBuffer ==
    \A t \in Threads :
       retval[t] = "false" =>
         /\ delivered[t] = << >>
         /\ found_frames[t] = << >>
         /\ pc[t] \in {"return_overflow", "done"}
         /\ pc[t] = "return_overflow" =>
              /\ UsedSlots(Buf) = {}
              /\ \A i \in DOMAIN data_buffer_ : data_buffer_[i].dataPtr = None
              /\ missing_packets_ = {}
              /\ newest_inserted_seq_num_ = None
              /\ ~first_packet_received_
              /\ ~is_cleared_to_first_seq_num_

OverflowFreedPackets ==
    \E t \in Threads :
       /\ pc[t] = "return_overflow"
       /\ Cardinality({ i \in DOMAIN data_buffer_ :
                          data_buffer_[i].seqNum # 0 }) >= 2
       /\ UsedSlots(Buf) = {}

\* The packets of the first frame of a stream of n-packet frames.
FramePackets(first, n, codec) ==
    { StreamPacket(first, U16(first + k), n, codec,
                   IF codec = "h264" THEN DeltaNalus(U16(first + k), n)
                   ELSE << >>, 0) : k \in 0 .. (n - 1) }

\* Each of the packets arrives once, in some order, and nothing else does.
ArriveOnce(packets) ==
    Len(network) = Cardinality(packets) /\ Range(network) = packets

RECURSIVE Payloads(_, _)
Payloads(first, n) ==
    IF n = 0 THEN << >>
    ELSE Payloads(first, n - 1) \o Payload(U16(first + n - 1))

\* The frame of the n packets from first on, as the callback gets it.
IsFrameOf(frame, first, n) ==
    /\ frame.first_seq_num = first
    /\ frame.last_seq_num = U16(first + n - 1)
    /\ frame.data = Payloads(first, n)

\* At the end of each call: the frame first .. first + n - 1 has been handed
\* over by the call that inserted the last of its n packets, and by no other.
DeliveredByLastCall(t, first, n) ==
    pc[t] = "done" =>
       IF calls = n
       THEN Len(delivered[t]) = 1 /\ IsFrameOf(delivered[t][1], first, n)
       ELSE delivered[t] = << >>

\* C3 as stated: the three packets of a generic frame, inserted in any
\* order into a new buffer, give exactly one frame, in the call that
\* inserts the last of them, with the begin packet's and the end packet's
\* sequence numbers and the three payloads in sequence order.
ThreePacketFrameAnyBuffer ==
    \A t \in Threads : \A first \in {65534, 65535} :
       ArriveOnce(FramePackets(first, 3, "generic"))
         => DeliveredByLastCall(t, first, 3)

\* C3, for buffers that can hold three packets: the same, when max_size_
\* is at least 4.
ThreePacketFrameAnyOrder ==
    \A t \in Threads : \A first \in {65534, 65535} :
       ArriveOnce(FramePackets(first, 3, "generic")) /\ max_size_ >= 4
         => DeliveredByLastCall(t, first, 3)

\* The end packet arrived first and the begin packet last, the buffer grew
\* on the way, and the frame has been handed over.
FrameFromReverseOrder ==
    \E t \in Threads :
       /\ ArriveOnce(FramePackets(65534, 3, "generic"))
       /\ network[1].is_last /\ network[3].is_first
       /\ calls = 3 /\ pc[t] = "done"
       /\ Len(delivered[t]) = 1
       /\ size_ > start_buffer_size

\* One of the two insertions of a packet that arrives twice in a row is
\* under way or has just ended.
SecondOfTwo(t) ==
    /\ op[t] = "InsertPacket"
    /\ calls >= 2
    /\ network[calls] = network[calls - 1]

\* C5: when the same packet is inserted twice in a row, the second
\* insertion does not return false and hands no frame to the callback, and
\* at most one used slot holds the sequence number.
SecondInsertionDeliversNothing ==
    \A t \in Threads :
       SecondOfTwo(t) =>
         /\ retval[t] # "false"
         /\ found_frames[t] = << >>
         /\ delivered[t] = << >>
         /\ Cardinality({ i \in UsedSlots(Buf) :
                            sequence_buffer_[i].seq_num
                              = network[calls].seqNum }) <= 1

\* The wrap frame: packets 65535 (begin) and 0 (end) of one frame.
WrapFrame(codec) == FramePackets(65535, 2, codec)

WrapFrameDelivered(t) ==
    /\ DeliveredByLastCall(t, 65535, 2)
    /\ pc[t] = "done" /\ calls = 2 =>
         /\ ~sequence_buffer_[Index(Buf, 65535)].used
         /\ ~sequence_buffer_[Index(Buf, 0)].used

\* C8 as stated: the frame of packets 65535 and 0, inserted in either
\* order into a new buffer of any capacity, is delivered as one frame
\* 65535 .. 0 by the second insertion, and both slots are unused then.
WrapFrameAnyCapacity ==
    \A t \in Threads : \A codec \in {"generic", "h264"} :
       ArriveOnce(WrapFrame(codec)) => WrapFrameDelivered(t)

\* C8, for buffers that can hold two packets: the same, when max_size_ is
\* at least 2.
WrapFrameAssembled ==
    \A t \in Threads : \A codec \in {"generic", "h264"} :
       ArriveOnce(WrapFrame(codec)) /\ max_size_ >= 2
         => WrapFrameDelivered(t)

\* Packet 0 arrived before packet 65535 and the frame has been handed over.
WrapFrameFromReverseOrder ==
    \E t \in Threads :
       /\ ArriveOnce(WrapFrame("generic"))
       /\ network[1].seqNum = 0
       /\ calls = 2 /\ pc[t] = "done"
       /\ Len(delivered[t]) = 1
       /\ delivered[t][1].first_seq_num = 65535
       /\ delivered[t][1].last_seq_num = 0

\* The sequence numbers are consecutive in the circular order.
Consecutive(seqs) ==
    \E s \in seqs : seqs = { U16(s + k) : k \in 0 .. (Cardinality(seqs) - 1) }

SeqNumsOf(q) == { q[k].seqNum : k \in DOMAIN q }

\* start_buffer_size + 1 packets with different sequence numbers arrive,
\* none of which ends a frame, and the buffer can grow.
OneMoreThanStart ==
    /\ Len(network) = start_buffer_size + 1
    /\ Cardinality(SeqNumsOf(network)) = Len(network)
    /\ \A k \in DOMAIN network : ~network[k].is_last
    /\ start_buffer_size < max_size_

\* The packet is in the slot of its sequence number, with its flags and
\* its payload.
Retained(packet) ==
    /\ sequence_buffer_[Index(Buf, packet.seqNum)].used
    /\ sequence_buffer_[Index(Buf, packet.seqNum)].seq_num = packet.seqNum
    /\ sequence_buffer_[Index(Buf, packet.seqNum)].frame_begin
         = packet.is_first
    /\ sequence_buffer_[Index(Buf, packet.seqNum)].frame_end = packet.is_last
    /\ data_buffer_[Index(Buf, packet.seqNum)] = packet

GrownOnce(t) ==
    pc[t] = "done" =>
       /\ retval[t] = "true"
       /\ calls = Len(network) =>
            /\ size_ = 2 * start_buffer_size
            /\ \A k \in DOMAIN network : Retained(network[k])

\* C9 as stated: start_buffer_size + 1 distinct packets that complete no
\* frame, inserted into a new buffer that can grow, double the capacity
\* exactly once, every InsertPacket returns true, and all the packets are
\* stored afterwards.
DistinctPacketsGrowOnce ==
    \A t \in Threads : OneMoreThanStart => GrownOnce(t)

\* C9, for a run of packets: the same, when the sequence numbers of the
\* packets are consecutive.
ConsecutivePacketsGrowOnce ==
    \A t \in Threads :
       OneMoreThanStart /\ Consecutive(SeqNumsOf(network)) => GrownOnce(t)

\* Three consecutive packets have been inserted into a buffer that started
\* with capacity 2.
ThreePacketsInFour ==
    \E t \in Threads :
       /\ OneMoreThanStart /\ Consecutive(SeqNumsOf(network))
       /\ start_buffer_size = 2 /\ size_ = 4
       /\ calls = 3 /\ pc[t] = "done"
       /\ \A k \in DOMAIN network : Retained(network[k])

DuplicateStep(t, packet) ==
    InsertPacket(t, packet) /\ Stored(Buf, packet)
      => /\ fault' = "none"
         /\ pc'[t] \in {"return_duplicate", "return_old"}
         /\ retval'[t] = "true"
         /\ found_frames'[t] = << >>
         /\ delivered'[t] = << >>
         /\ UNCHANGED << sequence_buffer_, data_buffer_, size_,
                         missing_packets_ >>

\* C4: InsertPacket of a packet whose sequence number is that of the packet
\* stored in its slot returns true with no frame found, and leaves the
\* slots (metadata and payload), the capacity and the missing set as they
\* were; from its return statement the call goes to no callback.
DuplicateChangesNothing ==
    [][/\ \A t \in Threads : \A k \in DOMAIN network :
            DuplicateStep(t, network[k])
       /\ \A t \in Threads :
            pc[t] \in {"return_duplicate", "return_old"}
              => pc'[t] \in {pc[t], "done"}]_vars

\* A duplicate of a stored packet that FindFrames had marked continuous.
DuplicateOfContinuous ==
    \E t \in Threads :
       /\ pc[t] = "return_duplicate"
       /\ \E i \in UsedSlots(Buf) : sequence_buffer_[i].continuous

\* C6: while a thread is in OnAssembledFrame it does not hold crit_, in
\* InsertPacket and in PaddingReceived alike; the lock is then free or held
\* by another thread that is in its own critical section.
CallbackOutsideLock ==
    \A t \in Threads :
       pc[t] \in {"deliver", "callback"} =>
         /\ crit_ # t
         /\ op[t] \in {"InsertPacket", "PaddingReceived"}
         /\ crit_ # NoThread => pc[crit_] \in SectionExits \cup {"crashed"}

\* Another thread has entered the buffer while a callback is running.
CalledDuringCallback ==
    \E t \in Threads : \E u \in Threads \ {t} :
       /\ pc[t] = "callback"
       /\ crit_ = u
       /\ calls >= 2

\* The frames of a thread's current call, in the order of delivery: those
\* handed to the callback and those still to be handed over.
FramesOfCall(t) == delivered[t] \o found_frames[t]

\* C7: the frames of one call are in ascending order: the first sequence
\* number of each frame is ahead of the last sequence number of the frame
\* before it.
FramesAscending ==
    \A t \in Threads : \A k \in 1 .. (Len(FramesOfCall(t)) - 1) :
       AheadOf(FramesOfCall(t)[k + 1].first_seq_num,
               FramesOfCall(t)[k].last_seq_num)

\* One call has handed two frames to the callback.
TwoFramesInOneCall ==
    \E t \in Threads : Len(delivered[t]) >= 2 /\ pc[t] = "callback"

IsPowerOfTwo(n) == \E k \in 0 .. 16 : n = Pow2(k)

\* C10: the capacity is a power of two between the capacity the buffer
\* was constructed with and max_size_.
CapacityInRange ==
    /\ IsPowerOfTwo(size_)
    /\ start_buffer_size <= size_
    /\ size_ <= max_size_
    /\ DOMAIN sequence_buffer_ = 0 .. (size_ - 1)
    /\ DOMAIN data_buffer_ = 0 .. (size_ - 1)

\* The buffer has grown twice.
GrownTwice == size_ = 4 * start_buffer_size

\* Every used slot of b holds, in both vectors, a sequence number whose
\* index it is.
SlotsConsistent(b) ==
    \A i \in UsedSlots(b) :
       /\ b.sequence_buffer_[i].seq_num = b.data_buffer_[i].seqNum
       /\ i = b.sequence_buffer_[i].seq_num % b.size_

\* The buffer g is b after one growth: every used slot of b is in g at the
\* index of its sequence number, metadata and packet unchanged, no two of
\* them at the same index, and g has no other used slot.
RehashedFrom(b, g) ==
    /\ g.size_ = 2 * b.size_
    /\ \A i \in UsedSlots(b) :
          /\ g.sequence_buffer_[b.sequence_buffer_[i].seq_num % g.size_]
               = b.sequence_buffer_[i]
          /\ g.data_buffer_[b.sequence_buffer_[i].seq_num % g.size_]
               = b.data_buffer_[i]
    /\ \A i \in UsedSlots(b) : \A j \in UsedSlots(b) :
          i # j => b.sequence_buffer_[i].seq_num % g.size_
                     # b.sequence_buffer_[j].seq_num % g.size_
    /\ Cardinality(UsedSlots(g)) = Cardinality(UsedSlots(b))

\* C11: every used slot has the same sequence number in sequence_buffer_
\* and data_buffer_ and is at the index of that number; and whenever the
\* buffer can grow, the buffer ExpandBufferSize gives has every used slot
\* rehashed unchanged, no two on one index, and is consistent again.
UsedSlotsConsistent ==
    /\ SlotsConsistent(Buf)
    /\ size_ < max_size_ =>
         /\ RehashedFrom(Buf, ExpandBufferSize(Buf).b)
         /\ SlotsConsistent(ExpandBufferSize(Buf).b)

\* The buffer has grown and holds two packets that a growth moved apart.
GrownWithTwoPackets ==
    /\ size_ > start_buffer_size
    /\ \E i \in UsedSlots(Buf) : \E j \in UsedSlots(Buf) :
          i # j /\ i % start_buffer_size = j % start_buffer_size

\* ClearTo(seq_num) returns at once: an earlier ClearTo has cleared past
\* seq_num.
ClearToSkipped(b, seq_num) ==
    b.is_cleared_to_first_seq_num_ /\ AheadOf(b.first_seq_num_, seq_num)

\* What ClearTo(seq_num) leaves: no used slot at or behind seq_num, the
\* slots ahead of it untouched, first_seq_num_ = seq_num + 1, after a loop
\* of at most size_ iterations.
ClearedUpTo(seq_num) ==
    /\ fault' = "none"
    /\ size_' = size_
    /\ \A i \in DOMAIN sequence_buffer_' :
          sequence_buffer_'[i].used
            => AheadOf(sequence_buffer_'[i].seq_num, seq_num)
    /\ \A i \in UsedSlots(Buf) :
          AheadOf(sequence_buffer_[i].seq_num, seq_num)
            => /\ sequence_buffer_'[i] = sequence_buffer_[i]
               /\ data_buffer_'[i] = data_buffer_[i]
    /\ first_seq_num_' = U16(seq_num + 1)
    /\ is_cleared_to_first_seq_num_'
    /\ ClearToIterations(Buf, U16(seq_num + 1)) <= size_

\* C12 as stated: ClearTo(s) on a buffer that holds packets leaves no used
\* slot with a sequence number at or behind s, leaves the slots ahead of s
\* unchanged and sets first_seq_num_ to s + 1, visiting at most size_ slots.
ClearToClearsUpTo ==
    [][\A t \in Threads : \A seq_num \in SeqNums :
          ClearTo(t, seq_num) /\ UsedSlots(Buf) # {}
            => ClearedUpTo(seq_num)]_vars

\* C12, for a ClearTo that is not behind an earlier one: the same, when no
\* earlier ClearTo has cleared past s.
ClearToAheadClearsUpTo ==
    [][\A t \in Threads : \A seq_num \in SeqNums :
          /\ ClearTo(t, seq_num)
          /\ UsedSlots(Buf) # {}
          /\ ~ClearToSkipped(Buf, seq_num)
          => ClearedUpTo(seq_num)]_vars

\* ClearTo has freed a packet and kept one that is ahead of the point.
ClearToKeptAndFreed ==
    \E t \in Threads :
       /\ op[t] = "ClearTo" /\ pc[t] = "scope_end"
       /\ UsedSlots(Buf) # {}
       /\ \E i \in DOMAIN sequence_buffer_ :
             /\ ~sequence_buffer_[i].used
             /\ data_buffer_[i].seqNum # 0
             /\ AheadOf(first_seq_num_, sequence_buffer_[i].seq_num)

\* AheadOrAt's tie point: half the sequence-number space.
kBreakpoint == SeqModulus \div 2

\* ClearTo(seq_num) of a section's result changes nothing in the buffer.
ClearToIsNoOp(once, seq_num) ==
    /\ ClearToSection(once.b, seq_num).fault = "none"
    /\ ClearToSection(once.b, seq_num).b = once.b

\* The sequence numbers that are the given distances behind seq_num.
BehindBy(seq_num, distances) == {U16(seq_num - k) : k \in distances}

\* first, second and the point of an earlier ClearTo that first is behind
\* lie within less than half the sequence-number space.
WithinHalfSpace(b, first, second) ==
    /\ ForwardDiff(second, first) < kBreakpoint - 1
    /\ ClearToSkipped(b, first)
         => ForwardDiff(second, b.first_seq_num_) < kBreakpoint

\* C13 as stated: ClearTo(N) followed at once by ClearTo(M), M equal to N or
\* behind N, leaves the buffer as the first call left it (slots, payloads,
\* first_seq_num_, cleared-to flag and missing set).
SecondClearToIsNoOp ==
    \A N \in SeqNums :
       \A M \in BehindBy(N, (0 .. NumSeqs) \cup {kBreakpoint - 2, kBreakpoint - 1}) :
          M = N \/ AheadOf(N, M)
            => ClearToIsNoOp(ClearToSection(Buf, N), M)

\* C13 within half the sequence-number space: the same, when M is less than
\* half the space behind N and behind the point ClearTo(N) leaves.
NearSecondClearToIsNoOp ==
    \A N \in SeqNums :
       \A M \in BehindBy(N, (0 .. NumSeqs) \cup {kBreakpoint - 2, kBreakpoint - 1}) :
          (M = N \/ AheadOf(N, M)) /\ WithinHalfSpace(Buf, N, M)
            => ClearToIsNoOp(ClearToSection(Buf, N), M)

\* A ClearTo behind an earlier ClearTo has returned at once on a buffer
\* that still holds a packet.
SecondClearToSkipped ==
    \E t \in Threads :
       /\ op[t] = "ClearTo" /\ pc[t] = "return_cleared_past"
       /\ is_cleared_to_first_seq_num_
       /\ UsedSlots(Buf) # {}

\* seq_num is at or behind the point (circular comparison).
AtOrBehind(seq_num, point) == seq_num = point \/ AheadOf(point, seq_num)

\* The state a ClearTo(seq_num) leaves until the next reset: the cleared-to
\* flag set and first_seq_num_ ahead of seq_num.
ClearedTo(seq_num) ==
    is_cleared_to_first_seq_num_ /\ AheadOf(first_seq_num_, seq_num)

\* InsertPacket(packet) on b would return true at the old-packet test and
\* leave the slots, the capacity and the missing set alone.
IgnoredAsOld(b, packet) ==
    /\ InsertPacketSection(b, packet).fault = "none"
    /\ InsertPacketSection(b, packet).at = "return_old"
    /\ InsertPacketReturns(InsertPacketSection(b, packet).at) = "true"
    /\ InsertPacketSection(b, packet).found_frames = << >>
    /\ InsertPacketSection(b, packet).b.sequence_buffer_ = b.sequence_buffer_
    /\ InsertPacketSection(b, packet).b.data_buffer_ = b.data_buffer_
    /\ InsertPacketSection(b, packet).b.size_ = b.size_
    /\ InsertPacketSection(b, packet).b.missing_packets_ = b.missing_packets_

\* Every packet of the stream at or behind seq_num would be ignored as old.
BehindIgnored(seq_num) ==
    /\ ClearedTo(seq_num)
    /\ \A k \in DOMAIN network :
          AtOrBehind(network[k].seqNum, seq_num)
            => IgnoredAsOld(Buf, network[k])

\* The InsertPacket step of a packet at or behind a ClearTo point.
OldInsertStep(t, packet, seq_num) ==
    /\ InsertPacket(t, packet)
    /\ ClearedTo(seq_num)
    /\ AtOrBehind(packet.seqNum, seq_num)
    => /\ fault' = "none"
       /\ pc'[t] = "return_old"
       /\ retval'[t] = "true"
       /\ found_frames'[t] = << >>
       /\ delivered'[t] = << >>
       /\ UNCHANGED << sequence_buffer_, data_buffer_, size_,
                       missing_packets_ >>

\* From a ClearTo(seq_num) to the next reset (Clear() or overflow, which
\* drop first_packet_received_) the point stays cleared, and a packet at or
\* behind it is ignored.
ClearedToLasts(t, seq_num) ==
    /\ ClearedTo(seq_num) /\ first_packet_received_' => ClearedTo(seq_num)'
    /\ \A k \in DOMAIN network : OldInsertStep(t, network[k], seq_num)

\* C14 as stated: after any ClearTo(s), until the next Clear() or overflow,
\* InsertPacket of a packet at or behind s returns true, stores nothing,
\* finds no frame and leaves the slots and the missing set unchanged.
InsertBehindClearToIgnored ==
    [][\A t \in Threads : \A seq_num \in SeqNums :
          /\ ClearTo(t, seq_num) /\ fault' = "none" => BehindIgnored(seq_num)'
          /\ ClearedToLasts(t, seq_num)]_vars

\* C14 for a ClearTo after the first packet: the same, when ClearTo(s) is
\* called after a packet has been inserted since construction or the last
\* reset.
InsertBehindClearToAfterFirstPacket ==
    [][\A t \in Threads : \A seq_num \in SeqNums :
          /\ ClearTo(t, seq_num) /\ fault' = "none" /\ first_packet_received_
               => BehindIgnored(seq_num)'
          /\ ClearedToLasts(t, seq_num)]_vars

\* An InsertPacket has returned at the old-packet test with a packet stored
\* ahead of the ClearTo point.
OldPacketAfterClearTo ==
    \E t \in Threads :
       /\ op[t] = "InsertPacket" /\ pc[t] = "return_old"
       /\ is_cleared_to_first_seq_num_
       /\ UsedSlots(Buf) # {}

\* What Clear() leaves of the slots, the missing set and the
\* first-sequence-number state.
BufferReset ==
    /\ fault' = "none"
    /\ size_' = size_
    /\ \A i \in DOMAIN sequence_buffer_' :
          ~sequence_buffer_'[i].used /\ ~IsSome(data_buffer_'[i].dataPtr)
    /\ missing_packets_' = {}
    /\ ~first_packet_received_'
    /\ ~is_cleared_to_first_seq_num_'
    /\ ~IsSome(newest_inserted_seq_num_')

\* C15 as stated: after Clear() every slot is unused and without payload,
\* the missing set is empty, the timestamp history is empty, and
\* first_packet_received_, is_cleared_to_first_seq_num_ and
\* newest_inserted_seq_num_ are reset.
ClearEmptiesHistory ==
    [][\A t \in Threads :
          ClearAll(t)
            => /\ BufferReset
               /\ rtp_timestamps_history_set_' = {}
               /\ rtp_timestamps_history_queue_' = << >>]_vars

\* C15 with the history kept: after Clear() every slot is unused and without
\* payload, the missing set is empty and the first-sequence-number state is
\* reset, while the timestamp history and the count of unique frames stay
\* as they were.
ClearKeepsHistory ==
    [][\A t \in Threads :
          ClearAll(t)
            => /\ BufferReset
               /\ UNCHANGED << rtp_timestamps_history_set_,
                               rtp_timestamps_history_queue_,
                               unique_frames_seen_ >>]_vars

\* Clear() has run on a buffer that had stored packets of two timestamps.
ClearedWithHistory ==
    \E t \in Threads :
       /\ op[t] = "Clear" /\ pc[t] = "scope_end"
       /\ Len(rtp_timestamps_history_queue_) = 2
       /\ \E i \in DOMAIN data_buffer_ : data_buffer_[i].seqNum # 0

\* Thread t is between taking crit_ and releasing it.
InCriticalSection(t) == pc[t] \in SectionExits \cup {"crashed"}

\* At most one thread is in a critical section, and it holds crit_.
MutuallyExcluded ==
    \A t \in Threads :
       InCriticalSection(t)
         => crit_ = t /\ \A u \in Threads \ {t} : ~InCriticalSection(u)

\* What the critical section of the operation thread t has entered makes of
\* the buffer b.
SectionResults(b, t) ==
    IF op'[t] = "InsertPacket"
    THEN { InsertPacketSection(b, network[k]).b : k \in DOMAIN network }
    ELSE IF op'[t] = "PaddingReceived"
    THEN { PaddingReceivedSection(b, seq_num).b : seq_num \in SeqNums }
    ELSE IF op'[t] = "ClearTo"
    THEN { ClearToSection(b, seq_num).b : seq_num \in SeqNums }
    ELSE { ClearSection(b).b }

\* The buffer changes only in the step in which one thread takes the free
\* lock, and then to what that thread's whole section makes of it.
SerialStep ==
    buffer_vars' # buffer_vars
      => \E t \in Threads :
            /\ crit_ = NoThread /\ crit_' = t
            /\ ~InCriticalSection(t) /\ InCriticalSection(t)'
            /\ Buf' \in SectionResults(Buf, t)

\* C16: the critical sections of InsertPacket, PaddingReceived, ClearTo and
\* Clear called from two threads exclude each other: at most one thread is
\* in a section, each change of the buffer is the whole section of the one
\* thread that took the lock applied to the state the last section left (a
\* serial order), and the slot and capacity invariants hold in every state.
LockSerializesSections ==
    /\ [](MutuallyExcluded /\ SlotsConsistent(Buf) /\ CapacityInRange)
    /\ [][SerialStep]_vars

\* One thread is in the critical section of InsertPacket on a buffer that
\* holds a packet while the other has returned from a ClearTo.
SectionAfterOtherThread ==
    \E t \in Threads : \E u \in Threads \ {t} :
       /\ crit_ = u /\ op[u] = "InsertPacket" /\ pc[u] = "scope_end"
       /\ op[t] = "ClearTo" /\ pc[t] = "done"
       /\ is_cleared_to_first_seq_num_
       /\ UsedSlots(Buf) # {}

\* The frame covers the sequence number.
InFrame(frame, seq_num) ==
    ForwardDiff(frame.first_seq_num, seq_num)
      <= ForwardDiff(frame.first_seq_num, frame.last_seq_num)

\* The packets of the stream before packet k that are of the same frame.
FrameBefore(k) ==
    { j \in 1 .. (k - 1) : \A i \in j .. (k - 1) : ~network[i].is_last }

\* The slot of seq_num holds a packet with that number that was inserted as
\* the last of its frame.
EndStored(b, seq_num) ==
    /\ b.sequence_buffer_[Index(b, seq_num)].used
    /\ b.sequence_buffer_[Index(b, seq_num)].seq_num = seq_num
    /\ b.sequence_buffer_[Index(b, seq_num)].frame_end
    /\ b.data_buffer_[Index(b, seq_num)].is_last

\* Packet k is the last of its frame and the only one of it not stored.
OnlyEndMissing(b, k) ==
    /\ network[k].is_last
    /\ ~Stored(b, network[k])
    /\ FrameBefore(k) # {}
    /\ \A j \in FrameBefore(k) : Stored(b, network[j])

PaddingForEndStep(t, seq_num) ==
    PaddingReceived(t, seq_num)
      => /\ \A i \in DOMAIN found_frames'[t] :
               EndStored(Buf, found_frames'[t][i].last_seq_num)
         /\ \A k \in DOMAIN network :
               network[k].seqNum = seq_num /\ OnlyEndMissing(Buf, k)
                 => /\ fault' = "none"
                    /\ \A i \in DOMAIN found_frames'[t] :
                          \A j \in FrameBefore(k) \cup {k} :
                             ~InFrame(found_frames'[t][i], network[j].seqNum)
                    /\ \A j \in FrameBefore(k) : Stored(Buf, network[j])'

InsertEndStep(t, packet) ==
    InsertPacket(t, packet)
      => \A i \in DOMAIN found_frames'[t] :
            \/ EndStored(Buf, found_frames'[t][i].last_seq_num)
            \/ /\ packet.seqNum = found_frames'[t][i].last_seq_num
               /\ packet.is_last

\* C17: PaddingReceived at the sequence number of a frame's last packet,
\* the only packet of the frame that is not stored, finds no frame that
\* covers the frame's packets; and every frame a call finds ends at a packet
\* that was inserted with frame_end set (stored before the call, or the
\* packet the call inserts).
PaddingNeverEndsFrame ==
    [][\A t \in Threads :
          /\ \A seq_num \in SeqNums : PaddingForEndStep(t, seq_num)
          /\ \A k \in DOMAIN network : InsertEndStep(t, network[k])]_vars

\* PaddingReceived has run at the sequence number of the missing last packet
\* of a frame whose other packets are stored.
PaddingAtMissingEnd ==
    \E t \in Threads : \E k \in DOMAIN network :
       /\ op[t] = "PaddingReceived" /\ pc[t] = "scope_end"
       /\ newest_inserted_seq_num_ = Some(network[k].seqNum)
       /\ OnlyEndMissing(Buf, k)
       /\ Cardinality(FrameBefore(k)) = 2
       /\ found_frames[t] = << >>

\* The H264 packet has no H264 header or as many NALUs as the limit.
Malformed(packet) ==
    /\ packet.codec = "h264"
    /\ ~packet.h264.present \/ Len(packet.h264.nalus) >= kMaxNalusPerPacket

\* The used slots of the run of slot i: the packets with its timestamp.
RunOf(b, i) ==
    { j \in UsedSlots(b) :
        b.data_buffer_[j].timestamp = b.data_buffer_[i].timestamp }

\* C18: a run of H264 packets with a packet that has no H264 header or too
\* many NALUs gives no frame, and when the call returns its slots are used
\* and not marked frame_created.
MalformedRunUnconsumed ==
    /\ \A i \in UsedSlots(Buf) :
          Malformed(data_buffer_[i])
            => \A j \in RunOf(Buf, i) : ~sequence_buffer_[j].frame_created
    /\ \A t \in Threads : \A k \in DOMAIN FramesOfCall(t) :
          \A p \in DOMAIN network :
             Malformed(network[p])
               => ~InFrame(FramesOfCall(t)[k], network[p].seqNum)

\* The packet of slot i is an H264 packet of a run that is held back: no
\* packet of the run shows a keyframe or is malformed, and the missing set
\* has an entry at or before the packet.
HeldBack(b, i) ==
    /\ b.data_buffer_[i].codec = "h264"
    /\ \A j \in RunOf(b, i) :
          /\ ~Malformed(b.data_buffer_[j])
          /\ b.data_buffer_[j].h264.nalus = << "slice" >>
    /\ BeforeUpperBound(b.missing_packets_, b.sequence_buffer_[i].seq_num)
         # {}

\* C19: when a call returns, the packets of an H264 frame that is no
\* keyframe and has a missing packet at or before it are in no frame of the
\* call and their slots are used and not marked frame_created.
GapFrameUnmarked ==
    \A i \in UsedSlots(Buf) :
       HeldBack(Buf, i)
         => /\ ~sequence_buffer_[i].frame_created
            /\ \A t \in Threads : \A k \in DOMAIN FramesOfCall(t) :
                  ~InFrame(FramesOfCall(t)[k], sequence_buffer_[i].seq_num)

\* The next InsertPacket or PaddingReceived, whatever it is, builds its
\* frames without a null first or last packet, an unused or mismatching
\* slot in GetEncodedImageBuffer or ClearInterval, or a read of a freed
\* payload.
NextCallBuildsFromPresent(b) ==
    /\ \A k \in DOMAIN network :
          InsertPacketSection(b, network[k]).fault = "none"
    /\ \A seq_num \in SeqNums :
          PaddingReceivedSection(b, seq_num).fault = "none"

\* C20: after any sequence of InsertPacket, PaddingReceived, ClearTo and
\* Clear, every frame FindFrames builds consists of packets that are in
\* their slots: GetPacket of its first and last sequence number is not
\* null and the checks of GetEncodedImageBuffer and ClearInterval hold.
FramesFromPresentPackets ==
    fault = "none" /\ NextCallBuildsFromPresent(Buf)

\* The slot before the slot of seq_num holds the packet before it, of the
\* same timestamp.
FollowsPrevious(b, seq_num) ==
    /\ b.sequence_buffer_[PrevIndex(b, Index(b, seq_num))].seq_num
         = U16(seq_num - 1)
    /\ b.data_buffer_[PrevIndex(b, Index(b, seq_num))].timestamp
         = b.data_buffer_[Index(b, seq_num)].timestamp
    /\ b.sequence_buffer_[PrevIndex(b, Index(b, seq_num))].continuous

\* The condition of a frame-start candidate, as one formula.
IsCandidate(b, seq_num) ==
    /\ b.sequence_buffer_[Index(b, seq_num)].used
    /\ b.sequence_buffer_[Index(b, seq_num)].seq_num = seq_num
    /\ ~b.sequence_buffer_[Index(b, seq_num)].frame_created
    /\ \/ b.sequence_buffer_[Index(b, seq_num)].frame_begin
       \/ /\ b.sequence_buffer_[PrevIndex(b, Index(b, seq_num))].used
          /\ ~b.sequence_buffer_[PrevIndex(b, Index(b, seq_num))].frame_created
          /\ FollowsPrevious(b, seq_num)

\* Slot i holds a packet that this step has marked continuous.
MarkedContinuous(i) ==
    /\ sequence_buffer_'[i].used /\ sequence_buffer_'[i].continuous
    /\ ~\E j \in UsedSlots(Buf) :
           /\ sequence_buffer_[j].seq_num = sequence_buffer_'[i].seq_num
           /\ sequence_buffer_[j].continuous

\* C21: PotentialNewFrame(seq) is true exactly when the slot of seq is used,
\* holds seq and is not frame_created, and has frame_begin or follows a
\* used, not frame_created, continuous slot holding seq - 1 with the same
\* timestamp; FindFrames from a sequence number that is no candidate marks
\* nothing, and a packet a call marks continuous begins a frame or follows
\* a continuous packet.
CandidateIffPotentialNewFrame ==
    /\ [](\A seq_num \in SeqNums :
            /\ PotentialNewFrame(Buf, seq_num) <=> IsCandidate(Buf, seq_num)
            /\ ~IsCandidate(Buf, seq_num)
                 => FindFrames(Buf, seq_num).b = Buf
            /\ IsCandidate(Buf, seq_num)
                 => FindFrames(Buf, seq_num).b
                      .sequence_buffer_[Index(Buf, seq_num)].continuous)
    /\ [][\A i \in DOMAIN sequence_buffer_' :
            MarkedContinuous(i)
              => \/ sequence_buffer_'[i].frame_begin
                 \/ \E seq_num \in SeqNums :
                       /\ seq_num = sequence_buffer_'[i].seq_num
                       /\ FollowsPrevious(Buf, seq_num)']_vars

\* A packet that does not begin a frame is a candidate because it follows a
\* continuous packet.
CandidateAfterContinuous ==
    \E seq_num \in SeqNums :
       /\ PotentialNewFrame(Buf, seq_num)
       /\ ~sequence_buffer_[Index(Buf, seq_num)].frame_begin
       /\ sequence_buffer_[Index(Buf, seq_num)].continuous

\* Some frame the step has found covers the sequence number.
InFoundFrame(t, seq_num) ==
    \E k \in DOMAIN found_frames'[t] : InFrame(found_frames'[t][k], seq_num)

\* What a call that has found frames leaves: the slots of the frames'
\* sequence numbers unused and without payload, the other packets, the
\* inserted one included, in their slots, and no missing entry at or before
\* the last sequence number of a frame.
FramesConsumed(t, inserted) ==
    /\ \A seq_num \in SeqNums :
          InFoundFrame(t, seq_num)
            => /\ ~sequence_buffer_'[seq_num % size_'].used
               /\ ~IsSome(data_buffer_'[seq_num % size_'].dataPtr)
    /\ \A j \in UsedSlots(Buf) :
          ~InFoundFrame(t, sequence_buffer_[j].seq_num)
            => /\ sequence_buffer_'[sequence_buffer_[j].seq_num % size_'].used
               /\ sequence_buffer_'[sequence_buffer_[j].seq_num % size_'].seq_num
                    = sequence_buffer_[j].seq_num
               /\ data_buffer_'[sequence_buffer_[j].seq_num % size_']
                    = data_buffer_[j]
    /\ \A seq_num \in inserted :
          ~InFoundFrame(t, seq_num)
            => /\ sequence_buffer_'[seq_num % size_'].used
               /\ sequence_buffer_'[seq_num % size_'].seq_num = seq_num
    /\ \A k \in DOMAIN found_frames'[t] :
          BeforeUpperBound(missing_packets_', found_frames'[t][k].last_seq_num)
            = {}

\* C22: when a call has found frames, on return every slot of a frame's
\* sequence numbers first .. last is unused with its payload released,
\* every other packet that was stored is still stored, and the missing set
\* has no entry at or before a frame's last sequence number.
EmittedFrameConsumed ==
    [][\A t \in Threads :
          /\ \A k \in DOMAIN network :
                InsertPacket(t, network[k]) /\ found_frames'[t] # << >>
                  => FramesConsumed(t, {network[k].seqNum})
          /\ \A seq_num \in SeqNums :
                PaddingReceived(t, seq_num) /\ found_frames'[t] # << >>
                  => FramesConsumed(t, {})]_vars

\* A call has found a frame of more than one packet, after a gap in the
\* sequence numbers, and another packet is still stored.
FrameEmittedOthersKept ==
    \E t \in Threads :
       /\ pc[t] = "scope_end"
       /\ Len(found_frames[t]) = 1
       /\ found_frames[t][1].first_seq_num # found_frames[t][1].last_seq_num
       /\ UsedSlots(Buf) # {}

\* The sequence numbers UpdateMissingPackets is tried with: those of the
\* stream, and jumps ahead of the newest one around kMaxPaddingAge.
JumpSeqNums(b) ==
    SeqNums \cup
      IF IsSome(b.newest_inserted_seq_num_)
      THEN { U16(Val(b.newest_inserted_seq_num_) + d) :
               d \in {kMaxPaddingAge, kMaxPaddingAge + 1} }
      ELSE {}

\* The sequence numbers strictly between two sequence numbers.
Between(from, to) ==
    { U16(from + k) : k \in 1 .. (ForwardDiff(from, to) - 1) }

\* UpdateMissingPackets writes the missing set and the marker only.
OnlyMissingChanged(b, u) ==
    u = [b EXCEPT !.missing_packets_ = u.missing_packets_,
                  !.newest_inserted_seq_num_ = u.newest_inserted_seq_num_]

\* What UpdateMissingPackets(seq_num) makes (u) of b, whose newest-known
\* sequence number is newest.
MissingUpdated(b, u, newest, seq_num) ==
    /\ OnlyMissingChanged(b, u)
    /\ IsSome(newest) /\ AheadOf(seq_num, Val(newest))
         => /\ u.newest_inserted_seq_num_ = Some(seq_num)
            /\ ForwardDiff(Val(newest), seq_num) <= kMaxPaddingAge
                 => Between(Val(newest), seq_num) \subseteq u.missing_packets_
    /\ IsSome(newest) /\ ~AheadOf(seq_num, Val(newest))
         => /\ u.missing_packets_ = b.missing_packets_ \ {seq_num}
            /\ u.newest_inserted_seq_num_ = newest

\* C23: UpdateMissingPackets(seq) with seq ahead of the newest-known
\* sequence number makes seq the newest and, for a gap of at most
\* kMaxPaddingAge, adds every sequence number strictly between the two to
\* the missing set; with seq equal to or behind the newest it removes seq
\* from the missing set and changes neither the marker nor another entry.
GapsRecordedAndFilled ==
    \A seq_num \in JumpSeqNums(Buf) :
       MissingUpdated(Buf, UpdateMissingPackets(Buf, seq_num),
                      newest_inserted_seq_num_, seq_num)

\* A call has skipped two sequence numbers, which are now missing.
TwoMissing ==
    \E t \in Threads :
       /\ pc[t] = "scope_end"
       /\ IsSome(newest_inserted_seq_num_)
       /\ Cardinality(missing_packets_) = 2

\* Every entry of the missing set is behind the newest-known sequence
\* number, by kMaxPaddingAge at most.
MissingWithinAge ==
    /\ \A e \in missing_packets_ :
          /\ IsSome(newest_inserted_seq_num_)
          /\ e # Val(newest_inserted_seq_num_)
          /\ AheadOf(Val(newest_inserted_seq_num_), e)
          /\ ForwardDiff(e, Val(newest_inserted_seq_num_)) <= kMaxPaddingAge
    /\ Cardinality(missing_packets_) <= kMaxPaddingAge

\* C24: in every reachable state, also of a stream whose sequence numbers
\* jump by more than kMaxPaddingAge, every entry of the missing set is
\* strictly behind the newest-known sequence number and at most
\* kMaxPaddingAge behind it, the set has at most kMaxPaddingAge entries,
\* and no call adds kMaxPaddingAge entries or more.
MissingSetBounded ==
    /\ []MissingWithinAge
    /\ [][Cardinality(missing_packets_' \ missing_packets_)
             < kMaxPaddingAge]_vars

\* A call has jumped ahead by more than kMaxPaddingAge and has filled the
\* missing set with the kMaxPaddingAge - 1 sequence numbers before it.
JumpedPastAge ==
    \E t \in Threads :
       /\ pc[t] = "scope_end"
       /\ op[t] \in {"InsertPacket", "PaddingReceived"}
       /\ IsSome(newest_inserted_seq_num_)
       /\ Cardinality(missing_packets_) = kMaxPaddingAge - 1
       /\ U16(Val(newest_inserted_seq_num_) - kMaxPaddingAge)
            \notin missing_packets_

\* The packets of the frame of the stream that starts with network[k].
FrameFrom(k) ==
    { j \in DOMAIN network :
        j >= k /\ network[j].timestamp = network[k].timestamp }

\* A complete H264 delta frame whose first packet is network[k] is stored
\* in b, and the one missing sequence number at or before its first is the
\* one just before it.
WithheldForGap(b, k) ==
    /\ network[k].codec = "h264" /\ network[k].is_first
    /\ \E j \in FrameFrom(k) : network[j].is_last
    /\ \A j \in FrameFrom(k) :
          /\ Stored(b, network[j])
          /\ ~Malformed(network[j])
          /\ \A i \in DOMAIN network[j].h264.nalus :
                network[j].h264.nalus[i] # "idr"
    /\ BeforeUpperBound(b.missing_packets_, network[k].seqNum)
         = {U16(network[k].seqNum - 1)}

\* PaddingReceived(seq_num), r, has filled the gap before network[k] and
\* has returned the frame that starts with it.
GapFilled(r, k, seq_num) ==
    /\ r.fault = "none"
    /\ seq_num \notin r.b.missing_packets_
    /\ \E f \in DOMAIN r.found_frames :
          r.found_frames[f].first_seq_num = network[k].seqNum

\* C25: when a complete H264 delta frame that starts at g + 1 is stored and
\* is held back only because g is missing, PaddingReceived(g) removes g
\* from the missing set and returns the frame.
PaddingDeliversWithheld ==
    \A k \in DOMAIN network :
       WithheldForGap(Buf, k)
         => GapFilled(PaddingReceivedSection(Buf, U16(network[k].seqNum - 1)),
                      k, U16(network[k].seqNum - 1))

\* The call of t that inserted network[k] has held its frame back for a
\* missing packet before it.
InsertedAndWithheld(t, k) ==
    /\ InsertPacket(t, network[k])
    /\ pc'[t] = "scope_end"
    /\ network[k].codec = "h264"
    /\ network[k].is_first /\ network[k].is_last
    /\ Stored(Buf, network[k])'
    /\ BeforeUpperBound(missing_packets_, network[k].seqNum)' # {}

\* network[k] is a whole H264 keyframe that was stored before the step.
KeyframeStored(k) ==
    /\ network[k].codec = "h264" /\ network[k].is_last
    /\ network[k].h264.present
    /\ \E i \in DOMAIN network[k].h264.nalus : network[k].h264.nalus[i] = "idr"
    /\ Stored(Buf, network[k])

NaluTypesOf(frame) ==
    UNION { { network[p].h264.nalus[j] : j \in DOMAIN network[p].h264.nalus } :
              p \in { q \in DOMAIN network :
                        InFrame(frame, network[q].seqNum) } }

\* What makes an H264 frame a keyframe: an IDR NALU, and with the field
\* trial WebRTC-SpsPpsIdrIsH264Keyframe also an SPS and a PPS NALU.
KeyframeByPolicy(types) ==
    /\ "idr" \in types
    /\ sps_pps_idr_is_h264_keyframe_ => "sps" \in types /\ "pps" \in types

\* C27: an H264 frame is returned as a keyframe if and only if its packets
\* hold an IDR NALU and, when SPS and PPS are required, an SPS and a PPS
\* NALU; otherwise it is returned as a delta frame.  The type is that of
\* the frame's first packet, set before the frame is built.
KeyframeIffIdrByPolicy ==
    \A t \in Threads : \A f \in DOMAIN FramesOfCall(t) :
       FramesOfCall(t)[f].codec = "h264"
         => /\ FramesOfCall(t)[f].frame_type \in {"key", "delta"}
            /\ FramesOfCall(t)[f].frame_type = "key"
                 <=> KeyframeByPolicy(NaluTypesOf(FramesOfCall(t)[f]))

\* With SPS and PPS required, a call has returned a keyframe of several
\* packets.
KeyframeOfSeveralPackets ==
    \E t \in Threads : \E f \in DOMAIN FramesOfCall(t) :
       /\ sps_pps_idr_is_h264_keyframe_
       /\ FramesOfCall(t)[f].codec = "h264"
       /\ FramesOfCall(t)[f].frame_type = "key"
       /\ FramesOfCall(t)[f].first_seq_num # FramesOfCall(t)[f].last_seq_num

\* The sequence numbers the frame covers.
SeqNumsOfFrame(frame) ==
    { U16(frame.first_seq_num + d) :
        d \in 0 .. ForwardDiff(frame.first_seq_num, frame.last_seq_num) }

\* The H264 frame is a run of slots of one timestamp that the slot before
\* its first does not extend.  b is the buffer after the call: ClearInterval
\* has freed the frame's slots and has left their timestamps.
WholeRun(b, frame) ==
    /\ \A s \in SeqNumsOfFrame(frame) :
          b.data_buffer_[Index(b, s)].timestamp = frame.timestamp
    /\ ~InFrame(frame, U16(frame.first_seq_num - b.size_))
         => ~(/\ b.sequence_buffer_[
                   PrevIndex(b, Index(b, frame.first_seq_num))].used
              /\ b.data_buffer_[
                   PrevIndex(b, Index(b, frame.first_seq_num))].timestamp
                   = frame.timestamp)

\* The frame starts at the one slot among its slots that has frame_begin.
FromNearestBegin(b, frame) ==
    \A s \in SeqNumsOfFrame(frame) :
       b.sequence_buffer_[Index(b, s)].frame_begin
         <=> s = frame.first_seq_num

\* The frames of the call r start where the backward walk is said to stop.
WalkedToStart(r) ==
    \A f \in DOMAIN r.found_frames :
       IF r.found_frames[f].codec = "h264"
       THEN WholeRun(r.b, r.found_frames[f])
       ELSE FromNearestBegin(r.b, r.found_frames[f])

FromNearestBeginOrRing(b, frame) ==
    /\ \A s \in SeqNumsOfFrame(frame) :
          b.sequence_buffer_[Index(b, s)].frame_begin
            => s = frame.first_seq_num
    /\ \/ b.sequence_buffer_[Index(b, frame.first_seq_num)].frame_begin
       \/ Cardinality(SeqNumsOfFrame(frame)) = b.size_

WalkedToStartOrRing(r) ==
    \A f \in DOMAIN r.found_frames :
       IF r.found_frames[f].codec = "h264"
       THEN WholeRun(r.b, r.found_frames[f])
       ELSE FromNearestBeginOrRing(r.b, r.found_frames[f])

RECURSIVE SumSizes(_, _, _)
SumSizes(b, index, end) ==
    b.data_buffer_[index].sizeBytes
      + (IF (index + 1) % b.size_ = end THEN 0
         ELSE SumSizes(b, (index + 1) % b.size_, end))

\* The size of the frame first_seq_num .. last_seq_num as
\* GetEncodedImageBuffer adds it up.
CopiedSize(b, first_seq_num, last_seq_num) ==
    SumSizes(b, Index(b, first_seq_num), U16(last_seq_num + 1) % b.size_)

\* The backward walk from the slot of seq_num in b.
WalkFrom(b, seq_num) ==
    BackwardWalk(b, IsH264(b, seq_num),
                 b.data_buffer_[Index(b, seq_num)].timestamp,
                 WalkStart(b, seq_num))

\* The walk w from seq_num has added up what the copy will add up.
WalkSizeIsCopiedSize(b, seq_num, w) ==
    w.frame_size = CopiedSize(b, w.start_seq_num, seq_num)

\* The call r has not failed the bounds check and every frame it returns
\* is filled to its last byte with the payloads of its slots.
FramesFilled(r) ==
    /\ r.fault # "check"
    /\ \A f \in DOMAIN r.found_frames :
          /\ Len(r.found_frames[f].data)
               = CopiedSize(r.b, r.found_frames[f].first_seq_num,
                            r.found_frames[f].last_seq_num)
          /\ Uninitialized \notin Range(r.found_frames[f].data)

\* C29: the frame size the backward walk adds up is the sum of the payload
\* sizes of the slots GetEncodedImageBuffer copies, from whichever slot of
\* a reachable buffer the walk starts, so the bounds check of the copy
\* holds in every call.
FrameSizeIsCopiedSize ==
    /\ fault # "check"
    /\ \A seq_num \in SeqNums :
          WalkSizeIsCopiedSize(Buf, seq_num, WalkFrom(Buf, seq_num))
    /\ \A k \in DOMAIN network :
          FramesFilled(InsertPacketSection(Buf, network[k]))
    /\ \A seq_num \in SeqNums :
          FramesFilled(PaddingReceivedSection(Buf, seq_num))

\* A call has returned a frame that fills the ring: its walk has stopped
\* at tested_packets == size_.
FrameFillsRing ==
    \E t \in Threads : \E f \in DOMAIN found_frames[t] :
       /\ size_ > 1
       /\ Cardinality(SeqNumsOfFrame(found_frames[t][f])) = size_
       /\ Len(found_frames[t][f].data) > size_

\* Sequence numbers far from those of the stream, one at half the
\* sequence-number space from its first.
DistantSeqNums ==
    { U16(65534 + (2 * kMaxPaddingAge)), U16(65534 + kBreakpoint) }

\* The number of iterations of the for loop of FindFrames(seq_num), i of
\* them done.
RECURSIVE ScanLength(_, _, _)
ScanContinues(a, seq_num, i) ==
    IF a.fault # "none" \/ a.returned THEN i + 1
    ELSE ScanLength(a.b, U16(seq_num + 1), i + 1)

ScanLength(b, seq_num, i) ==
    IF ~(i < b.size_ /\ PotentialNewFrame(b, seq_num)) THEN i
    ELSE IF ~b.sequence_buffer_[Index(b, seq_num)].frame_end
    THEN ScanLength(SetContinuous(b, seq_num), U16(seq_num + 1), i + 1)
    ELSE ScanContinues(AssembleFrame(SetContinuous(b, seq_num), seq_num),
                       seq_num, i)

\* The call has come to its end, or to a failed check.
Completed(r) ==
    /\ r.at \in {"scope_end", "return_overflow", "return_old",
                 "return_duplicate", "return_cleared_past",
                 "return_no_packet"}
    /\ r.fault \in {"none", "dcheck", "check", "null_deref", "null_read"}
    /\ r.b.size_ <= r.b.max_size_

\* The loops that run when seq_num is passed to an operation on b are
\* bounded by the capacity.
LoopsBounded(b, seq_num) ==
    /\ ScanLength(b, seq_num, 0) <= b.size_
    /\ WalkFrom(b, seq_num).tested_packets \in 1 .. b.size_
    /\ ClearToIterations(b, U16(seq_num + 1)) <= b.size_
    /\ ExpandWhileUsed(b, seq_num).size_ <= b.max_size_
    /\ ExpandWhileUsed(b, seq_num).sequence_buffer_[
         seq_num % ExpandWhileUsed(b, seq_num).size_].used
         => ExpandWhileUsed(b, seq_num).size_ = b.max_size_

\* C30: from every reachable state and for any sequence number, each
\* operation comes to an end; FindFrames makes at most size_ iterations,
\* its backward walk tests at most size_ packets, ClearTo makes at most
\* size_ iterations, and InsertPacket stops growing the buffer at
\* max_size_.
OperationsBounded ==
    /\ Completed(ClearSection(Buf))
    /\ \A seq_num \in SeqNums \cup DistantSeqNums :
          /\ LoopsBounded(Buf, seq_num)
          /\ Completed(ClearToSection(Buf, seq_num))
    /\ \A seq_num \in SeqNums :
          Completed(PaddingReceivedSection(Buf, seq_num))
    /\ \A k \in DOMAIN network :
          /\ Completed(InsertPacketSection(Buf, network[k]))
          /\ ~Buf.sequence_buffer_[Index(Buf, network[k].seqNum)].used
               => LoopsBounded(StorePacket(Buf, network[k]),
                               network[k].seqNum)
    /\ Completed(PaddingReceivedSection(Buf, U16(65534 + kBreakpoint)))
    /\ Completed(InsertPacketSection(
                   Buf, [network[1] EXCEPT
                           !.seqNum = U16(65534 + kBreakpoint)]))

\* ClearTo(2) has followed InsertPacket(65534): five sequence numbers to
\* clear in a buffer of fewer slots.
ClearToCapped ==
    \E t \in Threads :
       /\ op[t] = "ClearTo" /\ pc[t] = "scope_end"
       /\ calls = 2
       /\ first_seq_num_ = 3
       /\ newest_inserted_seq_num_ = Some(65534)
       /\ size_ < NumSeqs

\* In a step, the frames of the call of t stay what the critical section
\* found, each handed to the callback at most once and the call returning
\* when all are handed over.
HandedOverOnce(t) ==
    /\ \/ FramesOfCall(t)' = FramesOfCall(t)
       \/ pc[t] \in {"idle", "done"}
    /\ Len(delivered'[t]) <= Len(delivered[t]) + 1
    /\ pc[t] = "deliver" /\ pc'[t] = "done" => found_frames[t] = << >>

\* C31: with two threads in InsertPacket, each thread hands the frames of
\* its own call to the callback once, after it has left its critical
\* section and whatever the other thread does; the order of the callbacks
\* of different threads is not that of the critical sections.
EachCallDeliversItsFrames ==
    [][\A t \in Threads : HandedOverOnce(t)]_vars

\* Two one-packet frames: the frame of the packet inserted second has
\* reached the callback and the frame of the packet inserted first, by the
\* other thread and of a lower sequence number, has not.
LaterFrameDeliveredFirst ==
    \E t \in Threads : \E u \in Threads \ {t} :
       /\ op[t] = "InsertPacket" /\ op[u] = "InsertPacket"
       /\ pc[t] = "deliver" /\ delivered[t] = << >>
       /\ Len(found_frames[t]) = 1
       /\ found_frames[t][1].first_seq_num = found_frames[t][1].last_seq_num
       /\ pc[u] = "callback" /\ Len(delivered[u]) = 1
       /\ delivered[u][1].first_seq_num = delivered[u][1].last_seq_num
       /\ AheadOf(delivered[u][1].first_seq_num,
                  found_frames[t][1].last_seq_num)
       /\ rtp_timestamps_history_queue_
            = << found_frames[t][1].timestamp, delivered[u][1].timestamp >>

\* The packets that have arrived and that the frame covers.
ArrivedIn(frame) ==
    { network[k] : k \in { j \in DOMAIN network :
                             InFrame(frame, network[j].seqNum) } }

\* The packet of the set with the sequence number.
PacketAt(packets, seq_num) ==
    CHOOSE packet \in packets : packet.seqNum = seq_num

\* The frame's figures are those of the packets first .. last: the largest
\* timesNacked, the earliest and the latest receive time, and the receive
\* times in ascending order of sequence number.
FiguresOf(frame, packets) ==
    /\ { packet.seqNum : packet \in packets } = SeqNumsOfFrame(frame)
    /\ \E packet \in packets : frame.times_nacked = packet.timesNacked
    /\ \A packet \in packets : frame.times_nacked >= packet.timesNacked
    /\ \E packet \in packets : frame.min_recv_time = packet.receive_time_ms
    /\ \A packet \in packets : frame.min_recv_time <= packet.receive_time_ms
    /\ \E packet \in packets : frame.max_recv_time = packet.receive_time_ms
    /\ \A packet \in packets : frame.max_recv_time >= packet.receive_time_ms
    /\ frame.packet_infos
         = [i \in 1 .. Cardinality(SeqNumsOfFrame(frame)) |->
              PacketAt(packets, U16(frame.first_seq_num + i - 1))
                .receive_time_ms]

\* C32: a delivered frame covers the consecutive sequence numbers from its
\* first to its last; its nack count is the maximum of timesNacked over
\* these packets, its receive times are the minimum and maximum of theirs,
\* and packet_infos has one entry per packet in ascending sequence order.
FrameFiguresFromItsPackets ==
    \A t \in Threads : \A f \in DOMAIN FramesOfCall(t) :
       FiguresOf(FramesOfCall(t)[f], ArrivedIn(FramesOfCall(t)[f]))

\* A frame of three packets has been found whose first packet has seen the
\* most retransmission requests and arrived last.
FirstPacketNackedMost ==
    \E t \in Threads : \E f \in DOMAIN found_frames[t] :
       /\ Cardinality(SeqNumsOfFrame(found_frames[t][f])) = 3
       /\ found_frames[t][f].times_nacked = 1
       /\ found_frames[t][f].max_recv_time = found_frames[t][f].packet_infos[1]
       /\ found_frames[t][f].min_recv_time = found_frames[t][f].packet_infos[3]

(* ---- C33: the counter of frames seen and the timestamp history ------- *)

\* The set and the queue hold the same timestamps, each once, and no more
\* than the limit.
HistoryConsistent ==
    /\ Range(rtp_timestamps_history_queue_)
         = rtp_timestamps_history_set_
    /\ Len(rtp_timestamps_history_queue_)
         = Cardinality(rtp_timestamps_history_set_)
    /\ Cardinality(rtp_timestamps_history_set_) <= kMaxTimestampsHistory

\* What an InsertPacket of a timestamp does to the counter and the history:
\* nothing when the timestamp is recorded; otherwise it counts one frame
\* and records the timestamp last, and evicts the head of the queue when
\* that makes one more than the limit.
TimestampRecorded(rtp_timestamp) ==
    IF rtp_timestamp \in rtp_timestamps_history_set_
    THEN /\ unique_frames_seen_' = unique_frames_seen_
         /\ rtp_timestamps_history_set_' = rtp_timestamps_history_set_
         /\ rtp_timestamps_history_queue_' = rtp_timestamps_history_queue_
    ELSE /\ unique_frames_seen_' = unique_frames_seen_ + 1
         /\ IF Cardinality(rtp_timestamps_history_set_)
                 = kMaxTimestampsHistory
            THEN /\ rtp_timestamps_history_set_' =
                      (rtp_timestamps_history_set_ \cup {rtp_timestamp})
                        \ {Head(rtp_timestamps_history_queue_)}
                 /\ rtp_timestamps_history_queue_' =
                      Append(Tail(rtp_timestamps_history_queue_),
                             rtp_timestamp)
            ELSE /\ rtp_timestamps_history_set_' =
                      rtp_timestamps_history_set_ \cup {rtp_timestamp}
                 /\ rtp_timestamps_history_queue_' =
                      Append(rtp_timestamps_history_queue_, rtp_timestamp)

HistoryStep ==
    \A t \in Threads :
       /\ \A k \in DOMAIN network :
             InsertPacket(t, network[k])
               => TimestampRecorded(network[k].timestamp)
       /\ ~(\E k \in DOMAIN network : InsertPacket(t, network[k]))
            /\ (\A u \in Threads : ~(\E k \in DOMAIN network :
                                       InsertPacket(u, network[k])))
            => UNCHANGED << unique_frames_seen_,
                            rtp_timestamps_history_set_,
                            rtp_timestamps_history_queue_ >>

\* C33: the counter of unique frames grows by one on each InsertPacket
\* whose timestamp is not in the history and changes on no other step; the
\* history set and queue hold the same timestamps, never more than
\* kMaxTimestampsHistory, and a full history evicts its oldest timestamp.
UniqueFramesCounted == ([]HistoryConsistent) /\ [][HistoryStep]_vars

\* A full history has evicted its oldest timestamp for a new frame, and a
\* later call has left the counter alone.
OldestTimestampEvicted ==
    /\ Cardinality(rtp_timestamps_history_set_) = kMaxTimestampsHistory
    /\ unique_frames_seen_ = kMaxTimestampsHistory + 1
    /\ 1 \notin rtp_timestamps_history_set_
    /\ Head(rtp_timestamps_history_queue_) = 2
    /\ calls = 2
    /\ \A t \in Threads : pc[t] \in {"idle", "off"}

(* ---- C34: who owns the payloads --------------------------------------- *)

\* The slots that hold a payload, and the packets in them.
PayloadSlots(b) ==
    { i \in DOMAIN b.data_buffer_ : IsSome(b.data_buffer_[i].dataPtr) }

Held(b) == { b.data_buffer_[i] : i \in PayloadSlots(b) }

\* The slots with a payload are the used slots, and no two of them hold the
\* same packet.
SlotsOwnPayloads(b) ==
    /\ PayloadSlots(b) = UsedSlots(b)
    /\ \A i, j \in PayloadSlots(b) :
          i # j => b.data_buffer_[i].seqNum # b.data_buffer_[j].seqNum

\* *packet when InsertPacket returns: every path ends with
\* packet->dataPtr = nullptr, after a delete[] or after the copy into the
\* slot.
PacketAfterInsert(packet) == [packet EXCEPT !.dataPtr = None]

\* The packets the frames cover.
Consumed(frames, packets) ==
    { q \in packets :
        \E f \in DOMAIN frames : q.seqNum \in SeqNumsOfFrame(frames[f]) }

\* The payloads in the slots after InsertPacket(packet) are those held
\* before and, when the packet was stored, the packet's, less those of the
\* frames the call found; an overflow releases them all.
PayloadsAccounted(b, r, packet) ==
    /\ ~IsSome(PacketAfterInsert(packet).dataPtr)
    /\ r.at \in {"return_old", "return_duplicate"} => Held(r.b) = Held(b)
    /\ r.at = "return_overflow" => Held(r.b) = {}
    /\ r.at = "scope_end" =>
          Held(r.b) = (Held(b) \cup {packet})
                        \ Consumed(r.found_frames, Held(b) \cup {packet})

PayloadStep ==
    /\ \A t \in Threads : \A k \in DOMAIN network :
          InsertPacket(t, network[k]) /\ fault' = "none"
            => /\ IsSome(network[k].dataPtr)
               /\ PayloadsAccounted(Buf,
                                    InsertPacketSection(Buf, network[k]),
                                    network[k])
    /\ ~(\E t \in Threads : \E k \in DOMAIN network :
            InsertPacket(t, network[k]))
         => Held(Buf)' \subseteq Held(Buf)

Left == Held(Buf) \ Held(Buf)'

\* A frame of the call that thread t has just made covers the packet.
LeavesInFrame(t, q) ==
    \E f \in DOMAIN found_frames'[t] :
       q.seqNum \in SeqNumsOfFrame(found_frames'[t][f])

\* The causes a step can have for each packet that leaves.
LeavesForCause ==
    \A t \in Threads :
       /\ \A k \in DOMAIN network :
             InsertPacket(t, network[k])
               => \A q \in Left :
                     \/ pc'[t] = "return_overflow"
                     \/ pc'[t] = "scope_end" /\ LeavesInFrame(t, q)
       /\ \A seq_num \in SeqNums :
             PaddingReceived(t, seq_num)
               => \A q \in Left : LeavesInFrame(t, q)
       /\ \A seq_num \in SeqNums :
             ClearTo(t, seq_num)
               => \A q \in Left : ~AheadOf(q.seqNum, seq_num)

\* A step that enters no operation takes no packet out of the buffer.
LeavesInOperation ==
    (\A t \in Threads : op'[t] = op[t] \/ op'[t] = "none") => Left = {}

\* A capacity doubling keeps the packets that no frame of the call covers.
GrowthKeepsPackets ==
    \A t \in Threads :
       size_' > size_ /\ pc'[t] = "scope_end"
         => \A q \in Left : LeavesInFrame(t, q)

\* C35: InsertPacket never overwrites a used slot: a stored packet leaves
\* the buffer only in a frame that the call found, by a ClearTo at or past
\* its sequence number, or by a Clear, explicit or on overflow; a capacity
\* doubling drops no stored packet.
StoredPacketsLeaveForCause ==
    [][LeavesForCause /\ LeavesInOperation /\ GrowthKeepsPackets]_vars

\* The buffer has grown twice from one slot and holds the three packets
\* that made it grow.
ThreeKeptThroughGrowth ==
    /\ start_buffer_size = 1
    /\ size_ = 4
    /\ Cardinality(Held(Buf)) = 3
    /\ UsedSlots(Buf) = PayloadSlots(Buf)

(* ---- C36: slots marked frame_created between operations -------------- *)

\* The used slots that a scan has marked as part of a frame.
UsedAndCreated(b) ==
    { i \in UsedSlots(b) : b.sequence_buffer_[i].frame_created }

\* C36: while no call is in its critical section, no slot is both used and
\* marked frame_created: every packet that a scan marked was freed with a
\* frame of the same call or had its mark removed before the call returned.
NoUsedSlotCreated == crit_ = NoThread => UsedAndCreated(Buf) = {}

(* ---- C37: the missing set after ClearTo ------------------------------- *)

\* The call ran to the end of ClearTo: it did not return early.
TakesEffect(t, seq_num) == ClearTo(t, seq_num) /\ pc'[t] = "scope_end"

\* C37: after a ClearTo(s) that takes effect (a packet has been received
\* and the buffer is not cleared past s), every entry of the missing set
\* is ahead of s.
ClearToTrimsMissing ==
    [][\A t \in Threads : \A seq_num \in SeqNums :
          TakesEffect(t, seq_num)
            => \A missing \in missing_packets_' : AheadOf(missing, seq_num)]_vars

(* ---- C38: stored packets and the missing set -------------------------- *)

\* The sequence numbers that the used slots hold.
StoredSeqNums(b) == { b.sequence_buffer_[i].seq_num : i \in UsedSlots(b) }

StoredNotMissing(b) == StoredSeqNums(b) \cap b.missing_packets_ = {}

\* The buffers that one more InsertPacket or PaddingReceived, the
\* operations that update the missing set, can make of b.
AfterOneMore(b) ==
    { InsertPacketSection(b, network[k]).b : k \in DOMAIN network }
      \cup { PaddingReceivedSection(b, network[k].seqNum).b :
               k \in DOMAIN network }

\* C38: in every reachable state, no sequence number that a used slot
\* holds is in the missing set.
NoStoredPacketMissing ==
    \A b \in {Buf} \cup AfterOneMore(Buf) : StoredNotMissing(b)

\* A stored packet is ahead of the newest inserted sequence number: the
\* marker is more than kBreakpoint past it, or has come up behind it.
StoredAhead(b) ==
    /\ IsSome(b.newest_inserted_seq_num_)
    /\ \E seq_num \in StoredSeqNums(b) :
          AheadOf(seq_num, Val(b.newest_inserted_seq_num_))

StoredBehindNewest(b) == StoredNotMissing(b) /\ ~StoredAhead(b)

\* C38, amended: from a state where no stored sequence number is missing
\* and no stored packet is ahead of the newest inserted sequence number,
\* every operation leads to a state where no stored sequence number is
\* missing.
StoredBehindNewestNotMissing ==
    /\ [](StoredBehindNewest(Buf)
            => \A b \in AfterOneMore(Buf) : StoredNotMissing(b))
    /\ [][StoredBehindNewest(Buf) => StoredNotMissing(Buf)']_vars

\* A jump has recorded a full window of missing numbers while two packets
\* are stored, neither of them ahead of the newest.
GapRecordedBehindStored ==
    /\ Cardinality(missing_packets_) = kMaxPaddingAge - 1
    /\ Cardinality(StoredSeqNums(Buf)) = 2
    /\ newest_inserted_seq_num_ = Some(20002)
    /\ ~StoredAhead(Buf)
    /\ StoredNotMissing(Buf)

(* ---- C39: the first sequence number and the stored packets ----------- *)

\* first_seq_num_ is ahead of no stored packet.
MarkerNotAhead(b) ==
    \A seq_num \in StoredSeqNums(b) : ~AheadOf(b.first_seq_num_, seq_num)

\* C39: when the cleared-to flag is set no used slot holds a sequence
\* number behind first_seq_num_, and when it is not set first_seq_num_ is
\* ahead of no used slot's sequence number.
MarkerBehindStored ==
    /\ is_cleared_to_first_seq_num_
         => \A i \in UsedSlots(Buf) :
               ~AheadOf(first_seq_num_, sequence_buffer_[i].seq_num)
    /\ ~is_cleared_to_first_seq_num_
         => ~(\E i \in UsedSlots(Buf) :
                AheadOf(first_seq_num_, sequence_buffer_[i].seq_num))

\* The sequence numbers lie in a window of less than half the range that
\* starts at one of them or at x.
InWindow(seq_nums, x) ==
    \E base \in seq_nums \cup {x} :
       \A seq_num \in seq_nums \cup {x} :
          ForwardDiff(base, seq_num) < kBreakpoint - 1

\* The sequence numbers stored before and after a step, and first_seq_num_
\* after it.
SpanOfStep ==
    StoredSeqNums(Buf) \cup StoredSeqNums(Buf)' \cup {first_seq_num_'}

\* C39, amended: a step from a state where first_seq_num_ is ahead of no
\* stored packet leads to such a state when the sequence numbers stored
\* before and after it lie with first_seq_num_ before and after it in a
\* window of less than half the range.
MarkerBehindStoredInWindow ==
    [][MarkerNotAhead(Buf)
         /\ InWindow(SpanOfStep, first_seq_num_)
         => MarkerNotAhead(Buf)']_vars

\* After ClearTo the flag is set, first_seq_num_ is just past the cleared
\* packet, and the packet that is stored is ahead of it.
StoredAheadOfClearedMarker ==
    /\ is_cleared_to_first_seq_num_
    /\ first_seq_num_ = 1
    /\ StoredSeqNums(Buf) = {20002}
    /\ calls = 3

====
